---- MODULE Spec2Model ----
(***************************************************************************)
(* A model of the directory scraper: the pagination driver                 *)
(* (scraper/core.py), the record extractor (scraper/parser.py), record     *)
(* normalisation (scraper/models.py) and the detail enricher               *)
(* (scraper/deep_scraper.py).                                              *)
(*                                                                         *)
(* Python strings are modelled as sequences of one-character strings, so   *)
(* that trimming, prefix tests, URL joining and origin extraction are      *)
(* computed rather than assumed.  None is modelled by the value Null.      *)
(***************************************************************************)
EXTENDS Integers, Sequences, FiniteSets, TLC

\* strings are sequences, so None is a sequence no string equals
Null == <<"None">>

(***************************************************************************)
(* String helpers (Python str methods used by the code).                   *)
(***************************************************************************)
Min(a, b) == IF a < b THEN a ELSE b

IsStr(v) == v # Null

\* s[i:] of Python for 0-based i, written with a 1-based first index
Drop(s, n) == SubSeq(s, n + 1, Len(s))

Take(s, n) == SubSeq(s, 1, Min(n, Len(s)))

\* str.startswith
StartsWith(s, p) == Len(s) >= Len(p) /\ SubSeq(s, 1, Len(p)) = p

\* `sub in s`
Contains(s, sub) ==
    \E i \in 1..(Len(s) - Len(sub) + 1) : SubSeq(s, i, i + Len(sub) - 1) = sub

WhiteSpace == {" "}

RECURSIVE LStrip(_)
LStrip(s) ==
    IF s # <<>> /\ Head(s) \in WhiteSpace THEN LStrip(Tail(s)) ELSE s

RECURSIVE RStrip(_)
RStrip(s) ==
    IF s # <<>> /\ s[Len(s)] \in WhiteSpace
    THEN RStrip(SubSeq(s, 1, Len(s) - 1))
    ELSE s

\* str.strip
Strip(s) == RStrip(LStrip(s))

UpperCase == <<"A","B","C","D","E","F","G","H","I","J","K","L","M",
               "N","O","P","Q","R","S","T","U","V","W","X","Y","Z">>
LowerCase == <<"a","b","c","d","e","f","g","h","i","j","k","l","m",
               "n","o","p","q","r","s","t","u","v","w","x","y","z">>
DigitChars == <<"0","1","2","3","4","5","6","7","8","9">>

Range(s) == {s[i] : i \in 1..Len(s)}

LowerMap == [c \in Range(UpperCase) |->
                LowerCase[CHOOSE i \in 1..Len(UpperCase) : UpperCase[i] = c]]

LowerChar(c) == IF c \in DOMAIN LowerMap THEN LowerMap[c] ELSE c

\* str.lower
Lower(s) == [i \in 1..Len(s) |-> LowerChar(s[i])]

\* the regular-expression class \w
WordChars == Range(UpperCase) \cup Range(LowerCase) \cup Range(DigitChars) \cup {"_"}

\* the regular-expression class [\w\.-]
EmailChars == WordChars \cup {".", "-"}

S_url == <<"u","r","l">>
S_link == <<"l","i","n","k">>
S_email == <<"e","m","a","i","l">>
S_http == <<"h","t","t","p",":","/","/">>
S_https == <<"h","t","t","p","s",":","/","/">>
S_slashes == <<"/","/">>

Max(S) == CHOOSE x \in S : \A y \in S : y <= x

(***************************************************************************)
(* scraper/models.py: OutputRecord normalisation.                          *)
(***************************************************************************)
\* the last index j >= i-1 such that s[i..j] lies in the class C
RunEnd(s, i, C) ==
    CHOOSE j \in (i - 1)..Len(s) :
        /\ \A k \in i..j : s[k] \in C
        /\ (j = Len(s) \/ s[j + 1] \notin C)

\* end index of the match of [\w\.-]+@[\w\.-]+\.\w+ that starts at i, 0 if none.
\* The first group is greedy and must stop right before "@"; the second group
\* backtracks to the last "." of its run that is followed by a word character.
EmailMatchEnd(s, i) ==
    LET e == RunEnd(s, i, EmailChars)
        f == RunEnd(s, e + 2, EmailChars)
        G == {g \in (e + 2)..(f - 1) :
                s[g + 1] = "." /\ g + 2 <= Len(s) /\ s[g + 2] \in WordChars}
    IN  IF e >= i /\ e + 1 <= Len(s) /\ s[e + 1] = "@" /\ G # {}
        THEN RunEnd(s, Max(G) + 2, WordChars)
        ELSE 0

\* OutputRecord._clean_email: re.search returns the leftmost match
_clean_email(email) ==
    LET starts == {i \in 1..Len(email) : EmailMatchEnd(email, i) > 0}
    IN  IF starts = {} THEN email
        ELSE LET i == CHOOSE x \in starts : \A y \in starts : x <= y
             IN  SubSeq(email, i, EmailMatchEnd(email, i))

\* OutputRecord._clean_url
_clean_url(url) ==
    LET u == Strip(url)
    IN  IF u # <<>> /\ ~(StartsWith(u, S_http) \/ StartsWith(u, S_https)
                          \/ StartsWith(u, S_slashes))
        THEN S_https \o u
        ELSE u

CleanValue(key, value) ==
    IF ~IsStr(value) THEN value
    ELSE LET v1 == Strip(value)
             v2 == IF Contains(Lower(key), S_email) THEN _clean_email(v1) ELSE v1
         IN  IF Contains(Lower(key), S_url) \/ Contains(Lower(key), S_link)
             THEN _clean_url(v2)
             ELSE v2

\* OutputRecord.clean_data: the validator run when a record is constructed
clean_data(v) == [key \in DOMAIN v |-> CleanValue(key, v[key])]

\* OutputRecord(data=...)
OutputRecord(data) == [data |-> clean_data(data)]

(***************************************************************************)
(* urllib.parse as far as the code uses it, for URLs without query,        *)
(* fragment or dot segments.                                               *)
(***************************************************************************)
\* str.find for a set of characters: the first index of one of them, 0 if none
RECURSIVE FindFrom(_, _, _)
FindFrom(s, C, i) ==
    IF i > Len(s) THEN 0 ELSE IF s[i] \in C THEN i ELSE FindFrom(s, C, i + 1)

Find(s, C) == FindFrom(s, C, 1)

Letters == Range(UpperCase) \cup Range(LowerCase)

SchemeChars == Letters \cup Range(DigitChars) \cup {"+", "-", "."}

\* the members of urllib.parse.uses_relative that occur in the model
UsesRelative == {<<"h","t","t","p">>, <<"h","t","t","p","s">>}

\* index of the ":" ending the scheme of u, 0 when u has no scheme (urlsplit)
SchemeEnd(u) ==
    LET i == Find(u, {":"})
    IN  IF i > 1 /\ u[1] \in Letters /\ \A k \in 1..(i - 1) : u[k] \in SchemeChars
        THEN i ELSE 0

UrlScheme(u) == Lower(SubSeq(u, 1, SchemeEnd(u) - 1))

\* what follows "scheme:"
UrlRest(u) == Drop(u, SchemeEnd(u))

\* netloc and path of what follows the scheme
RestNetloc(r) ==
    IF StartsWith(r, S_slashes)
    THEN LET a == Drop(r, 2)
             stop == Find(a, {"/", "?", "#"})
         IN  IF stop = 0 THEN a ELSE SubSeq(a, 1, stop - 1)
    ELSE <<>>

RestPath(r) ==
    IF StartsWith(r, S_slashes) THEN Drop(r, 2 + Len(RestNetloc(r))) ELSE r

\* DeepScraper._get_domain: f"{parsed.scheme}://{parsed.netloc}"
_get_domain(url) ==
    UrlScheme(url) \o <<":","/","/">> \o RestNetloc(UrlRest(url))

\* the path up to and including its last "/"
DirName(path) ==
    LET sl == {i \in 1..Len(path) : path[i] = "/"}
    IN  IF sl = {} THEN <<>> ELSE SubSeq(path, 1, Max(sl))

\* urllib.parse.urljoin(base, url) for an absolute base
urljoin(base, url) ==
    LET bscheme == UrlScheme(base)
        bnetloc == RestNetloc(UrlRest(base))
        bpath == RestPath(UrlRest(base))
        scheme == IF SchemeEnd(url) > 0 THEN UrlScheme(url) ELSE bscheme
        rest == UrlRest(url)
        netloc == RestNetloc(rest)
        path == RestPath(rest)
        origin == scheme \o <<":","/","/">> \o bnetloc
    IN  IF base = <<>> THEN url
        ELSE IF url = <<>> THEN base
        ELSE IF scheme # bscheme \/ scheme \notin UsesRelative
             THEN url
        ELSE IF netloc # <<>> THEN scheme \o <<":">> \o rest
        ELSE IF path = <<>> THEN base
        ELSE IF Head(path) = "/" THEN origin \o path
        ELSE IF DirName(bpath) = <<>> THEN origin \o <<"/">> \o path
        ELSE origin \o DirName(bpath) \o path

(***************************************************************************)
(* The parsed HTML tree (selectolax).  A node carries its href and src     *)
(* attributes, its text, and for every selector the nodes the selector     *)
(* matches below it, in document order.  A selector is a sequence of       *)
(* tokens; the code only tests it for truth and hands it to css().         *)
(***************************************************************************)
Truthy(v) == v # Null /\ v # <<>>

\* selectors on which css() raises
InvalidSelectors == {<<"[">>}

\* css() raises: an invalid selector, or None passed as the selector
Faults(selector) == selector = Null \/ selector \in InvalidSelectors

\* node.css(selector) for a selector that does not fault
Css(node, selector) ==
    IF selector \in DOMAIN node.css THEN node.css[selector] ELSE <<>>

Leaf(href, src, text) == [href |-> href, src |-> src, text |-> text, css |-> <<>>]

(***************************************************************************)
(* scraper/parser.py: DirectoryParser(selector_map, base_url).             *)
(***************************************************************************)
\* _extract_field going on to the next match when a match has no value
_extract_fieldAnyMatch(element, selector) ==
    LET matches == Css(element, selector)
        value(target) ==
            IF Truthy(target.href) THEN target.href
            ELSE IF Truthy(target.src) THEN target.src
            ELSE IF Strip(target.text) # <<>> THEN Strip(target.text) ELSE Null
        valued == {i \in 1..Len(matches) : value(matches[i]) # Null}
    IN  IF valued = {} THEN Null
        ELSE value(matches[CHOOSE i \in valued : \A j \in valued : i <= j])

\* DirectoryParser._extract_field, for a selector that does not fault
_extract_field(element, selector) ==
    LET matches == Css(element, selector)
    IN  IF matches = <<>> THEN Null
        ELSE LET target == matches[1]
                 text == Strip(target.text)
             IN  IF Truthy(target.href) THEN target.href
                 ELSE IF Truthy(target.src) THEN target.src
                 ELSE IF text # <<>> THEN text ELSE Null

\* _extract_from_element without the try: a fault in a field gives up the element
_extract_from_elementAbort(selector_map, base_url, element) ==
    LET sel == selector_map.selectors
        raw(f) == _extract_field(element, sel[f])
        present == {f \in DOMAIN sel : Truthy(raw(f))}
        data == [f \in present |->
                    IF Contains(Lower(f), S_url) \/ Contains(Lower(f), S_link)
                    THEN urljoin(base_url, raw(f))
                    ELSE raw(f)]
    IN  IF (\E f \in DOMAIN sel : Faults(sel[f])) \/ present = {} THEN <<>> ELSE data

\* _extract_from_element returning data only when every field has a value
_extract_from_elementAll(selector_map, base_url, element) ==
    LET sel == selector_map.selectors
        raw(f) == IF Faults(sel[f]) THEN Null ELSE _extract_field(element, sel[f])
        present == {f \in DOMAIN sel : Faults(sel[f]) \/ Truthy(raw(f))}
        data == [f \in present |->
                    IF Faults(sel[f]) THEN Null
                    ELSE IF Contains(Lower(f), S_url) \/ Contains(Lower(f), S_link)
                         THEN urljoin(base_url, raw(f))
                         ELSE raw(f)]
    IN  IF \A f \in DOMAIN sel : f \in present /\ Truthy(data[f]) THEN data ELSE <<>>

\* DirectoryParser._extract_from_element
_extract_from_element(selector_map, base_url, element) ==
    LET sel == selector_map.selectors
        raw(f) == IF Faults(sel[f]) THEN Null ELSE _extract_field(element, sel[f])
        present == {f \in DOMAIN sel : Faults(sel[f]) \/ Truthy(raw(f))}
        data == [f \in present |->
                    IF Faults(sel[f]) THEN Null
                    ELSE IF Contains(Lower(f), S_url) \/ Contains(Lower(f), S_link)
                         THEN urljoin(base_url, raw(f))
                         ELSE raw(f)]
    IN  IF \E f \in present : Truthy(data[f]) THEN data ELSE <<>>

RECURSIVE ExtractItems(_, _, _)
ExtractItems(selector_map, base_url, items) ==
    IF items = <<>> THEN <<>>
    ELSE LET record_data == _extract_from_element(selector_map, base_url, Head(items))
             rest == ExtractItems(selector_map, base_url, Tail(items))
         IN  IF record_data # <<>>
             THEN <<OutputRecord(record_data)>> \o rest
             ELSE rest

\* parse_page raises when tree.css(list_item_selector) raises
ParsePageRaises(selector_map) ==
    Truthy(selector_map.list_item_selector) /\ Faults(selector_map.list_item_selector)

\* parse_page without its else branch: no record without a boundary selector
parse_pageNoRoot(selector_map, base_url, html) ==
    IF Truthy(selector_map.list_item_selector)
    THEN ExtractItems(selector_map, base_url, Css(html, selector_map.list_item_selector))
    ELSE <<>>

\* DirectoryParser.parse_page
parse_page(selector_map, base_url, html) ==
    IF Truthy(selector_map.list_item_selector)
    THEN ExtractItems(selector_map, base_url, Css(html, selector_map.list_item_selector))
    ELSE ExtractItems(selector_map, base_url, <<html>>)

\* find_next_page_url raises when tree.css(pagination_selector) raises
NextPageRaises(selector_map) ==
    Truthy(selector_map.pagination_selector) /\ Faults(selector_map.pagination_selector)

\* find_next_page_url looking at the first match alone
find_next_page_urlFirstMatch(selector_map, base_url, html) ==
    IF ~Truthy(selector_map.pagination_selector) THEN Null
    ELSE LET next_links == Css(html, selector_map.pagination_selector)
         IN  IF next_links = <<>> \/ ~Truthy(next_links[1].href) THEN Null
             ELSE urljoin(base_url, next_links[1].href)

\* DirectoryParser.find_next_page_url
find_next_page_url(selector_map, base_url, html) ==
    IF ~Truthy(selector_map.pagination_selector) THEN Null
    ELSE LET next_links == Css(html, selector_map.pagination_selector)
             withHref == {i \in 1..Len(next_links) : Truthy(next_links[i].href)}
         IN  IF withHref = {} THEN Null
             ELSE urljoin(base_url,
                          next_links[CHOOSE i \in withHref : \A j \in withHref : i <= j].href)

(***************************************************************************)
(* scraper/core.py: DirectoryScraper._clean_records.                       *)
(***************************************************************************)
non_none_fields(data) == Cardinality({k \in DOMAIN data : data[k] # Null})

RECURSIVE SelectSeq2(_, _)
SelectSeq2(records, n) ==
    IF records = <<>> THEN <<>>
    ELSE IF non_none_fields(Head(records).data) >= n
         THEN <<Head(records)>> \o SelectSeq2(Tail(records), n)
         ELSE SelectSeq2(Tail(records), n)

\* a dedup loop that remembers the previous record only
RECURSIVE UniqueAdjacent(_, _)
UniqueAdjacent(records, seen) ==
    IF records = <<>> THEN <<>>
    ELSE IF Head(records).data \in seen
         THEN UniqueAdjacent(Tail(records), seen)
         ELSE <<Head(records)>> \o UniqueAdjacent(Tail(records), {Head(records).data})

\* the dedup loop: rec_tuple = tuple(sorted(data.items())) identifies the data
RECURSIVE Unique(_, _)
Unique(records, seen) ==
    IF records = <<>> THEN <<>>
    ELSE IF Head(records).data \in seen
         THEN Unique(Tail(records), seen)
         ELSE <<Head(records)>> \o Unique(Tail(records), seen \cup {Head(records).data})

MinNonNoneFields == 2

_clean_records(records) == Unique(SelectSeq2(records, MinNonNoneFields), {})

(***************************************************************************)
(* The web the scraper runs against: NumPages listing pages of one site,   *)
(* each in a directory of its own.                                         *)
(***************************************************************************)
NumPages == 3

Pages == 1..NumPages

Digit(k) == DigitChars[k + 1]

PageUrl(k) == S_https \o <<"a", "/", Digit(k), "/", "p">>

PageOf(url) == CHOOSE k \in Pages : PageUrl(k) = url

F_name == <<"n","a","m","e">>
F_url == <<"u","r","l">>

Sel_item == <<".item">>
Sel_name == <<".name">>
Sel_link == <<"a">>
Sel_next == <<"a.next">>
Sel_bad == <<"[">>

\* a listing entry with a name and a relative link to its detail page
ItemA(k, name) ==
    [href |-> Null, src |-> Null, text |-> name,
     css |-> (Sel_name :> <<Leaf(Null, Null, name)>>)
             @@ (Sel_link :> <<Leaf(<<"d", Digit(k)>>, Null, <<>>)>>)]

\* an entry of which only the name matches
ItemB ==
    [href |-> Null, src |-> Null, text |-> <<"x">>,
     css |-> (Sel_name :> <<Leaf(Null, Null, <<"x">>)>>)]

\* an entry in which no field selector matches
ItemEmpty == [href |-> Null, src |-> Null, text |-> <<>>, css |-> <<>>]

\* page 1 lists entry 1; every later page lists its own entry and repeats
\* entry 1 with padded text
Items(k) ==
    IF k = 1 THEN <<ItemA(1, <<"n", Digit(1)>>), ItemB, ItemEmpty>>
    ELSE <<ItemA(k, <<"n", Digit(k)>>), ItemA(1, <<" ", "n", Digit(1), " ">>)>>

RECURSIVE Flatten(_, _)
Flatten(items, selector) ==
    IF items = <<>> THEN <<>>
    ELSE Css(Head(items), selector) \o Flatten(Tail(items), selector)

\* the anchors the pagination selector matches: a disabled one without href,
\* then the link to page `link` (none when link = 0)
NextLinks(link) ==
    <<Leaf(Null, Null, <<"p">>)>>
    \o (IF link = 0 THEN <<>> ELSE <<Leaf(PageUrl(link), Null, <<"n">>)>>)

\* the parsed HTML of page k when its next-page anchor points to page `link`
Html(k, link) ==
    [href |-> Null, src |-> Null, text |-> <<>>,
     css |-> (Sel_item :> Items(k))
             @@ (Sel_next :> NextLinks(link))
             @@ (Sel_name :> Flatten(Items(k), Sel_name))
             @@ (Sel_link :> (Flatten(Items(k), Sel_link) \o NextLinks(link)))]

(***************************************************************************)
(* The selector mappings the inference call may return (scraper/llm.py     *)
(* builds a SelectorMap from whatever keys the response holds).            *)
(***************************************************************************)
SelectorMap(selectors, list_item_selector, pagination_selector) ==
    [selectors |-> selectors,
     list_item_selector |-> list_item_selector,
     pagination_selector |-> pagination_selector]

ListingSelectors == (F_name :> Sel_name) @@ (F_url :> Sel_link)

MapFull == SelectorMap(ListingSelectors, Sel_item, Sel_next)
MapNoPagination == SelectorMap(ListingSelectors, Sel_item, Null)
MapRoot == SelectorMap(ListingSelectors, Null, Sel_next)
MapBadNext == SelectorMap(ListingSelectors, Sel_item, Sel_bad)

\* the response gives null for the selector of `name` and no next-page selector
MapNullField == SelectorMap((F_name :> Null) @@ (F_url :> Sel_link), Sel_item, Null)
\* the response has no selector for `name` and no next-page selector
MapMissingField == SelectorMap((F_url :> Sel_link), Sel_item, Null)

LLMResponses ==
    {MapFull, MapNoPagination, MapRoot, MapBadNext, MapNullField, MapMissingField}

(***************************************************************************)
(* State.                                                                  *)
(***************************************************************************)
VARIABLES
    site,            \* the web: site[k] is the page the next-page anchor of page
                     \* k points to, 0 for none, Unknown until page k is first read
    use_browser,     \* DirectoryScraper.use_browser
    max_pages,       \* DirectoryScraper.max_pages
    max_concurrent,  \* DirectoryScraper.max_concurrent
    visited_urls,    \* DirectoryScraper.visited_urls
    pc,              \* where the scrape coroutine stands
    selector_map,    \* scrape: selector_map (the parser is built from it)
    all_records,     \* scrape: all_records
    pages_to_scrape, \* scrape: pages_to_scrape
    page_count,      \* scrape: page_count
    tasks,           \* HTTP mode: the _fetch_and_parse tasks handed to gather
    current_url,     \* browser mode: current_url
    result,          \* the records of the returned ScraperResult, empty before the return
    raised,          \* what scrape raised to its caller: "none", "fetch", "inference"
    run,             \* history: number of scrape calls made on this instance
    fetched,         \* history: URLs fetched by the pagination loop of this run
    failures,        \* history: a page of this run's loop failed
    prev,            \* history: fetched, failures, selector_map of the previous run
    infers,          \* history: listing inference calls made by this run
    parse_maps,      \* history: the mappings pages of this run were extracted with
    records,         \* enrich_records: the records argument
    deep_max_concurrent, \* DeepScraper.max_concurrent
    epc,             \* where the enrich_records coroutine stands
    batch_start,     \* enrich_records: i, the index (0-based) of the batch's first record
    etasks,          \* enrich_records: the _enrich_single_record tasks handed to gather
    enriched_records,\* enrich_records: enriched_records
    selector_cache,  \* DeepScraper._selector_cache
    infer_calls,     \* history: inference calls made per origin
    used_maps,       \* history: the mappings detail pages were extracted with, per origin
    attempted,       \* history: positions of the records whose detail page was requested
    failed,          \* history: positions of the records whose task raised
    ipc,             \* where the infer_selectors coroutine stands
    attempt,         \* infer_selectors: attempt
    inferred,        \* infer_selectors: the SelectorMap it returned
    error,           \* infer_selectors: what it raised, "none" if nothing
    requests,        \* history: requests this call has sent to the model
    rate_limited,    \* history: 429 responses this call has received
    waits,           \* history: the delays this call has slept, in order
    icalls,          \* history: infer_selectors calls made
    ilog,            \* history: requests and outcome of the earlier calls
    p_items,         \* parse_page: the kinds of the entries of the page handed in
    p_map,           \* parse_page: self.selector_map
    ppc,             \* where the parse_page call stands
    p_out,           \* parse_page: the records returned
    call_pc,         \* where the call of a pure function stands
    call_arg,        \* the argument it was called with
    call_ret         \* what it returned

driverVars == <<site, use_browser, max_pages, max_concurrent, visited_urls, pc,
                selector_map, all_records, pages_to_scrape, page_count, tasks,
                current_url, result, raised, run, fetched, failures, prev,
                infers, parse_maps>>

enrichVars == <<records, deep_max_concurrent, epc, batch_start, etasks, enriched_records,
                selector_cache, infer_calls, used_maps, attempted, failed>>

inferVars == <<ipc, attempt, inferred, error, requests, rate_limited, waits, icalls, ilog>>

parseVars == <<p_items, p_map, ppc, p_out>>

callVars == <<call_pc, call_arg, call_ret>>

vars == <<driverVars, enrichVars, inferVars, parseVars, callVars>>

config == <<use_browser, max_pages, max_concurrent>>

Unknown == NumPages + 1

\* largest page cap and batch size the model tries, and scrape calls per instance
MaxPagesCap == 3
MaxConcurrentCap == 2
MaxRuns == 2

\* the URL every run of the model starts from
StartUrl == PageUrl(1)

\* the local selector_map before the inference call has assigned it
NoSelectorMap == SelectorMap(<<>>, Null, Null)

NoPrev == [fetched |-> <<>>, clean |-> FALSE, selector_map |-> NoSelectorMap]

\* DeepScraper.__init__: max_concurrent's default, and what DirectoryScraper
\* passes; the model constructs enrichers with 1 up to this value
DeepMaxConcurrent == 3

\* no parse_page call on a page of its own is under way
CallIdle ==
    /\ call_pc = "idle"
    /\ call_arg = <<>>
    /\ call_ret = <<>>

ParseIdle ==
    /\ p_items = <<>>
    /\ p_map = NoSelectorMap
    /\ ppc = "idle"
    /\ p_out = <<>>

\* no infer_selectors call is under way
InferIdle ==
    /\ ipc = "idle"
    /\ attempt = 0
    /\ inferred = NoSelectorMap
    /\ error = "none"
    /\ requests = 0
    /\ rate_limited = 0
    /\ waits = <<>>
    /\ icalls = 0
    /\ ilog = <<>>

\* DeepScraper.__init__, before any enrich_records call
EnricherIdle ==
    /\ records = <<>>
    /\ deep_max_concurrent = DeepMaxConcurrent
    /\ epc = "idle"
    /\ batch_start = 0
    /\ etasks = <<>>
    /\ enriched_records = <<>>
    /\ selector_cache = <<>>
    /\ infer_calls = <<>>
    /\ used_maps = <<>>
    /\ attempted = {}
    /\ failed = {}

\* DirectoryScraper.__init__
Init ==
    /\ site = [k \in Pages |-> Unknown]
    /\ use_browser \in BOOLEAN
    /\ max_pages \in 1..MaxPagesCap
    /\ max_concurrent \in 1..MaxConcurrentCap
    /\ visited_urls = {}
    /\ pc = "idle"
    /\ selector_map = NoSelectorMap
    /\ all_records = <<>>
    /\ pages_to_scrape = <<>>
    /\ page_count = 0
    /\ tasks = <<>>
    /\ current_url = Null
    /\ result = <<>>
    /\ raised = "none"
    /\ run = 0
    /\ fetched = <<>>
    /\ failures = FALSE
    /\ prev = NoPrev
    /\ infers = 0
    /\ parse_maps = {}
    /\ EnricherIdle
    /\ InferIdle
    /\ ParseIdle
    /\ CallIdle

\* the history of loop fetches; it stops growing past MaxPagesCap + 1 entries,
\* which no run of at most max_pages fetches reaches
LogFetch(log, url) == IF Len(log) <= MaxPagesCap THEN Append(log, url) ELSE log

\* the anchors page k may turn out to have: fixed once the page has been read
LinkChoices(k) == IF site[k] = Unknown THEN Pages \cup {0} ELSE {site[k]}

\* scrape(url) is called on the instance
Scrape ==
    /\ pc \in {"idle", "done", "raised"}
    /\ run < MaxRuns
    /\ run' = run + 1
    /\ prev' = IF pc = "idle" THEN prev
               ELSE [fetched |-> fetched,
                     clean |-> (pc = "done" /\ ~failures),
                     selector_map |-> selector_map]
    /\ pc' = "initial_fetch"
    /\ selector_map' = NoSelectorMap
    /\ all_records' = <<>>
    /\ pages_to_scrape' = <<>>
    /\ page_count' = 0
    /\ tasks' = <<>>
    /\ current_url' = Null
    /\ result' = <<>>
    /\ raised' = "none"
    /\ fetched' = <<>>
    /\ failures' = FALSE
    /\ infers' = 0
    /\ parse_maps' = {}
    /\ UNCHANGED <<site, config, visited_urls,
                   enrichVars, inferVars, parseVars, callVars>>

\* the fetch of the start URL that feeds inference: not inside any try
InitialFetch ==
    /\ pc = "initial_fetch"
    /\ \E ok \in BOOLEAN :
        IF ok THEN pc' = "infer" /\ raised' = raised
        ELSE pc' = "raised" /\ raised' = "fetch"
    /\ UNCHANGED <<site, config, visited_urls, selector_map, all_records,
                   pages_to_scrape, page_count, tasks, current_url, result,
                   run, fetched, failures, prev, infers, parse_maps,
                   enrichVars, inferVars, parseVars, callVars>>

\* await self.llm.infer_selectors(...), then the set-up of the loop
InferSelectors ==
    /\ pc = "infer"
    /\ \/ /\ pc' = "raised"
          /\ raised' = "inference"
          /\ UNCHANGED <<selector_map, visited_urls, pages_to_scrape>>
       \/ \E m \in LLMResponses :
          /\ selector_map' = m
          /\ pages_to_scrape' = <<StartUrl>>
          /\ visited_urls' = visited_urls \cup {StartUrl}
          /\ pc' = "loop"
          /\ raised' = raised
    /\ all_records' = <<>>
    /\ page_count' = 0
    /\ infers' = infers + 1
    /\ UNCHANGED <<site, config, tasks, current_url, result, run, fetched,
                   failures, prev, parse_maps,
                   enrichVars, inferVars, parseVars, callVars>>

\* mutant: the loop tests the queue only
LoopConditionNoCap == pages_to_scrape # <<>>

\* mutant: the loop runs while the count has not passed the cap
LoopConditionInclusive == pages_to_scrape # <<>> /\ page_count <= max_pages

\* while pages_to_scrape and page_count < self.max_pages
LoopCondition == pages_to_scrape # <<>> /\ page_count < max_pages

\* a parser whose mapping has lost its next-page selector
DirectoryParserStripped(mapping, base_url) ==
    [selector_map |-> [mapping EXCEPT !.pagination_selector = Null],
     base_url |-> base_url]

\* DirectoryParser.__init__
DirectoryParser(mapping, base_url) == [selector_map |-> mapping, base_url |-> base_url]

\* parser = DirectoryParser(selector_map, url): built once, before the loop,
\* from the inferred mapping and the URL scrape was called with
parser == DirectoryParser(selector_map, StartUrl)

\* a loop that hands the whole queue to gather at once
StartBatchAll ==
    /\ pc = "loop" /\ ~use_browser /\ LoopCondition
    /\ LET batch == pages_to_scrape
       IN  tasks' = [i \in 1..Len(batch) |->
                        [url |-> batch[i], status |-> "pending", error |-> "none",
                         records |-> <<>>, next_url |-> Null]]
    /\ pages_to_scrape' = <<>>
    /\ pc' = "gather"
    /\ UNCHANGED <<site, config, visited_urls, selector_map, all_records,
                   page_count, current_url, result, raised, run, fetched,
                   failures, prev, infers, parse_maps,
                   enrichVars, inferVars, parseVars, callVars>>

\* a loop that cuts the batch but leaves it on the queue
StartBatchKeep ==
    /\ pc = "loop" /\ ~use_browser /\ LoopCondition
    /\ LET batch == Take(pages_to_scrape, max_concurrent)
       IN  tasks' = [i \in 1..Len(batch) |->
                        [url |-> batch[i], status |-> "pending", error |-> "none",
                         records |-> <<>>, next_url |-> Null]]
    /\ pages_to_scrape' = pages_to_scrape
    /\ pc' = "gather"
    /\ UNCHANGED <<site, config, visited_urls, selector_map, all_records,
                   page_count, current_url, result, raised, run, fetched,
                   failures, prev, infers, parse_maps,
                   enrichVars, inferVars, parseVars, callVars>>

\* HTTP mode: cut a batch off the queue and hand its tasks to gather
StartBatch ==
    /\ pc = "loop" /\ ~use_browser /\ LoopCondition
    /\ LET batch == Take(pages_to_scrape, max_concurrent)
       IN  tasks' = [i \in 1..Len(batch) |->
                        [url |-> batch[i], status |-> "pending", error |-> "none",
                         records |-> <<>>, next_url |-> Null]]
    /\ pages_to_scrape' = Drop(pages_to_scrape, max_concurrent)
    /\ pc' = "gather"
    /\ UNCHANGED <<site, config, visited_urls, selector_map, all_records,
                   page_count, current_url, result, raised, run, fetched,
                   failures, prev, infers, parse_maps,
                   enrichVars, inferVars, parseVars, callVars>>

\* _fetch_and_parse of one task runs to its end: the fetch fails, or
\* parse_page or find_next_page_url raises on the fetched page, or the page
\* is parsed and its next-page link looked up; `error` keeps which
FetchAndParse(i) ==
    /\ pc = "gather"
    /\ tasks[i].status = "pending"
    /\ fetched' = LogFetch(fetched, tasks[i].url)
    /\ \/ /\ tasks' = [tasks EXCEPT ![i].status = "exception", ![i].error = "fetch"]
          /\ failures' = TRUE
          /\ site' = site
       \/ /\ NextPageRaises(parser.selector_map) \/ ParsePageRaises(parser.selector_map)
          /\ tasks' = [tasks EXCEPT ![i].status = "exception",
                                    ![i].error = "extraction"]
          /\ failures' = TRUE
          /\ site' = site
       \/ /\ ~NextPageRaises(parser.selector_map) /\ ~ParsePageRaises(parser.selector_map)
          /\ \E link \in LinkChoices(PageOf(tasks[i].url)) :
             LET k == PageOf(tasks[i].url)
                 html == Html(k, link)
             IN  /\ site' = [site EXCEPT ![k] = link]
                 /\ tasks' = [tasks EXCEPT ![i] =
                        [url |-> tasks[i].url, status |-> "ok", error |-> "none",
                         records |-> parse_page(parser.selector_map,
                                                parser.base_url, html),
                         next_url |-> find_next_page_url(parser.selector_map,
                                                         parser.base_url, html)]]
          /\ failures' = failures
    /\ parse_maps' = IF tasks'[i].status = "ok"
                     THEN parse_maps \cup {parser.selector_map} ELSE parse_maps
    /\ UNCHANGED <<config, visited_urls, pc, selector_map, all_records,
                   pages_to_scrape, page_count, current_url, result, raised,
                   run, prev, infers,
                   enrichVars, inferVars, parseVars, callVars>>

\* mutant: a failed page is put back on the queue
ProcessResultRetry(st, task) ==
    IF task.status = "exception"
    THEN [st EXCEPT !.pages_to_scrape = Append(st.pages_to_scrape, task.url)]
    ELSE LET enqueue == Truthy(task.next_url) /\ task.next_url \notin st.visited_urls
         IN  [all_records |-> st.all_records \o task.records,
              visited_urls |-> IF enqueue THEN st.visited_urls \cup {task.next_url}
                               ELSE st.visited_urls,
              pages_to_scrape |-> IF enqueue THEN Append(st.pages_to_scrape, task.next_url)
                                  ELSE st.pages_to_scrape,
              page_count |-> st.page_count + 1]

\* mutant: the next-page URL is queued without looking at visited_urls
ProcessResultNoVisited(st, task) ==
    IF task.status = "exception" THEN st
    ELSE LET enqueue == Truthy(task.next_url)
         IN  [all_records |-> st.all_records \o task.records,
              visited_urls |-> IF enqueue THEN st.visited_urls \cup {task.next_url}
                               ELSE st.visited_urls,
              pages_to_scrape |-> IF enqueue THEN Append(st.pages_to_scrape, task.next_url)
                                  ELSE st.pages_to_scrape,
              page_count |-> st.page_count + 1]

\* mutant: a failed page is counted as a page
ProcessResultCountFailed(st, task) ==
    IF task.status = "exception" THEN [st EXCEPT !.page_count = @ + 1]
    ELSE LET enqueue == Truthy(task.next_url) /\ task.next_url \notin st.visited_urls
         IN  [all_records |-> st.all_records \o task.records,
              visited_urls |-> IF enqueue THEN st.visited_urls \cup {task.next_url}
                               ELSE st.visited_urls,
              pages_to_scrape |-> IF enqueue THEN Append(st.pages_to_scrape, task.next_url)
                                  ELSE st.pages_to_scrape,
              page_count |-> st.page_count + 1]

\* the body of `for result in results` for one result
ProcessResult(st, task) ==
    IF task.status = "exception" THEN st
    ELSE LET enqueue == Truthy(task.next_url) /\ task.next_url \notin st.visited_urls
         IN  [all_records |-> st.all_records \o task.records,
              visited_urls |-> IF enqueue THEN st.visited_urls \cup {task.next_url}
                               ELSE st.visited_urls,
              pages_to_scrape |-> IF enqueue THEN Append(st.pages_to_scrape, task.next_url)
                                  ELSE st.pages_to_scrape,
              page_count |-> st.page_count + 1]

\* mutant: the first failed result ends the loop over the results
RECURSIVE ProcessResultsBreak(_, _)
ProcessResultsBreak(st, results) ==
    IF results = <<>> \/ Head(results).status = "exception" THEN st
    ELSE ProcessResultsBreak(ProcessResult(st, Head(results)), Tail(results))

\* a loop over the results from the last to the first
RECURSIVE ProcessResultsReversed(_, _)
ProcessResultsReversed(st, results) ==
    IF results = <<>> THEN st
    ELSE ProcessResultsReversed(ProcessResult(st, results[Len(results)]),
                                SubSeq(results, 1, Len(results) - 1))

\* `for result in results`, in the order of the batch
RECURSIVE ProcessResults(_, _)
ProcessResults(st, results) ==
    IF results = <<>> THEN st
    ELSE ProcessResults(ProcessResult(st, Head(results)), Tail(results))

\* gather returns once every task of the batch has ended
Gather ==
    /\ pc = "gather"
    /\ \A i \in 1..Len(tasks) : tasks[i].status # "pending"
    /\ LET st == ProcessResults([all_records |-> all_records,
                                 visited_urls |-> visited_urls,
                                 pages_to_scrape |-> pages_to_scrape,
                                 page_count |-> page_count], tasks)
       IN  /\ all_records' = st.all_records
           /\ visited_urls' = st.visited_urls
           /\ pages_to_scrape' = st.pages_to_scrape
           /\ page_count' = st.page_count
    /\ tasks' = <<>>
    /\ pc' = "loop"
    /\ UNCHANGED <<site, config, selector_map, current_url, result, raised,
                   run, fetched, failures, prev, infers, parse_maps,
                   enrichVars, inferVars, parseVars, callVars>>

\* browser mode: current_url = pages_to_scrape.pop(0)
BrowserPop ==
    /\ pc = "loop" /\ use_browser /\ LoopCondition
    /\ current_url' = Head(pages_to_scrape)
    /\ pages_to_scrape' = Tail(pages_to_scrape)
    /\ pc' = "browser_fetch"
    /\ UNCHANGED <<site, config, visited_urls, selector_map, all_records,
                   page_count, tasks, result, raised, run, fetched, failures, prev,
                   infers, parse_maps,
                   enrichVars, inferVars, parseVars, callVars>>

\* browser mode: the try block of one iteration
BrowserPage ==
    /\ pc = "browser_fetch"
    /\ fetched' = LogFetch(fetched, current_url)
    /\ \/ \* browser.get_html raises
          /\ failures' = TRUE
          /\ UNCHANGED <<site, all_records, visited_urls, pages_to_scrape, page_count,
                         parse_maps>>
       \/ \* parser.parse_page raises
          /\ ParsePageRaises(parser.selector_map)
          /\ failures' = TRUE
          /\ UNCHANGED <<site, all_records, visited_urls, pages_to_scrape, page_count,
                         parse_maps>>
       \/ /\ ~ParsePageRaises(parser.selector_map)
          /\ \E link \in LinkChoices(PageOf(current_url)) :
             LET k == PageOf(current_url)
                 html == Html(k, link)
                 page_records == parse_page(parser.selector_map, parser.base_url, html)
                 next_url == find_next_page_url(parser.selector_map, parser.base_url, html)
                 enqueue == Truthy(next_url) /\ next_url \notin visited_urls
             IN  /\ site' = [site EXCEPT ![k] = link]
                 /\ all_records' = all_records \o page_records
                 /\ parse_maps' = parse_maps \cup {parser.selector_map}
                 /\ IF NextPageRaises(parser.selector_map)
                    THEN \* find_next_page_url raises after the records were added
                         /\ failures' = TRUE
                         /\ UNCHANGED <<visited_urls, pages_to_scrape, page_count>>
                    ELSE /\ failures' = failures
                         /\ visited_urls' = IF enqueue THEN visited_urls \cup {next_url}
                                            ELSE visited_urls
                         /\ pages_to_scrape' = IF enqueue
                                               THEN Append(pages_to_scrape, next_url)
                                               ELSE pages_to_scrape
                         /\ page_count' = page_count + 1
    /\ pc' = "loop"
    /\ current_url' = Null
    /\ UNCHANGED <<config, selector_map, tasks, result, raised, run, prev, infers,
                   enrichVars, inferVars, parseVars, callVars>>

\* the loop has ended: browser mode cleans the records, HTTP mode returns
\* them as collected (no deep scraper is configured)
Return ==
    /\ pc = "loop" /\ ~LoopCondition
    /\ result' = IF use_browser THEN _clean_records(all_records) ELSE all_records
    /\ pc' = "done"
    /\ UNCHANGED <<site, config, visited_urls, selector_map, all_records,
                   pages_to_scrape, page_count, tasks, current_url, raised,
                   run, fetched, failures, prev, infers, parse_maps,
                   enrichVars, inferVars, parseVars, callVars>>

Next ==
    \/ Scrape
    \/ InitialFetch
    \/ InferSelectors
    \/ StartBatch
    \/ \E i \in 1..Len(tasks) : FetchAndParse(i)
    \/ Gather
    \/ BrowserPop
    \/ BrowserPage
    \/ Return

Spec == Init /\ [][Next]_vars
\* the steps of a running scrape call; the event loop runs every coroutine
\* that can continue, and every fetch ends (with a response or its timeout)
RunStep ==
    \/ InitialFetch
    \/ InferSelectors
    \/ StartBatch
    \/ \E i \in 1..Len(tasks) : FetchAndParse(i)
    \/ Gather
    \/ BrowserPop
    \/ BrowserPage
    \/ Return

LiveSpec == Spec /\ WF_vars(RunStep)

(***************************************************************************)
(* Claims about the pagination driver.                                     *)
(***************************************************************************)
InRun == pc \in {"loop", "gather", "browser_fetch", "done"}

\* the run follows next-page links and found page 1 linked to 2 and 2 to 3
Chain ==
    /\ InRun
    /\ selector_map.pagination_selector = Sel_next
    /\ site[1] = 2
    /\ site[2] = 3

\* C1: the pagination loop of a run fetches at most max_pages pages; on a
\* chain of 3 linked pages with a cap of 2 it never fetches page 3, and a
\* run on a fresh instance without page failures fetches exactly pages 1, 2.
C1_PageCap ==
    /\ Len(fetched) <= max_pages
    /\ (max_pages = 2 /\ Chain) => PageUrl(3) \notin Range(fetched)
    /\ (pc = "done" /\ run = 1 /\ ~failures /\ max_pages = 2 /\ Chain)
        => fetched = <<PageUrl(1), PageUrl(2)>>

C1_Witness ==
    /\ pc = "done"
    /\ max_pages = 2
    /\ Chain
    /\ fetched = <<PageUrl(1), PageUrl(2)>>
    /\ pages_to_scrape = <<PageUrl(3)>>

\* C2: every run terminates: once the pagination loop is entered it is
\* eventually left, with the queue empty or the page cap reached.
C2_Terminates ==
    (pc = "loop") ~> (pc = "done" /\ (pages_to_scrape = <<>> \/ page_count >= max_pages))

\* a run over the cycle 1 -> 2 -> 1 that ended with an empty queue below the cap
C2_Witness ==
    /\ pc = "done"
    /\ site[1] = 2
    /\ site[2] = 1
    /\ fetched = <<PageUrl(1), PageUrl(2)>>
    /\ pages_to_scrape = <<>>
    /\ page_count < max_pages

\* C3: a second run on the same instance, from the same start URL, over the
\* same pages and with the same mapping, fetches the pages the first run fetched.
C3_VisitedScopedToRun ==
    (pc = "done" /\ run = 2 /\ prev.clean /\ ~failures
        /\ prev.selector_map = selector_map)
    => fetched = prev.fetched

\* C4: the returned records hold no record with fewer than 2 non-null
\* fields and no two records with the same fields.
C4_ResultPostProcessed ==
    pc = "done" =>
        /\ \A i \in 1..Len(result) : non_none_fields(result[i].data) >= MinNonNoneFields
        /\ \A i, j \in 1..Len(result) : i < j => result[i].data # result[j].data

\* C5: a failed page fetch never makes scrape raise; only inference does.
C5_FetchFailureReturns == pc = "raised" => raised = "inference"
(***************************************************************************)
(* The body of the HTTP pagination loop on its own: the loop is entered    *)
(* with any queue of distinct, visited page URLs, so that batches of more  *)
(* than one page occur (inside scrape the queue never exceeds one URL).    *)
(***************************************************************************)
\* largest max_concurrent of the loop entered on its own
BatchConcurrentCap == 3

DistinctSeqs(S) ==
    UNION {{q \in [1..n -> S] : \A i, j \in 1..n : i # j => q[i] # q[j]} :
           n \in 1..Cardinality(S)}

InitBatch ==
    /\ site = [k \in Pages |-> IF k < NumPages THEN k + 1 ELSE 0]
    /\ use_browser = FALSE
    /\ max_pages \in 1..MaxPagesCap
    /\ max_concurrent \in 1..BatchConcurrentCap
    /\ selector_map \in {MapFull, MapBadNext}
    /\ \E q \in DistinctSeqs(Pages) :
        /\ pages_to_scrape = [i \in 1..Len(q) |-> PageUrl(q[i])]
        /\ visited_urls = {PageUrl(q[i]) : i \in 1..Len(q)}
    /\ pc = "loop"
    /\ all_records = <<>>
    /\ page_count = 0
    /\ tasks = <<>>
    /\ current_url = Null
    /\ result = <<>>
    /\ raised = "none"
    /\ run = 1
    /\ fetched = <<>>
    /\ failures = FALSE
    /\ prev = NoPrev
    /\ infers = 1
    /\ parse_maps = {}
    /\ EnricherIdle
    /\ InferIdle
    /\ ParseIdle
    /\ CallIdle

NextBatch ==
    \/ StartBatch
    \/ \E i \in 1..Len(tasks) : FetchAndParse(i)
    \/ Gather
    \/ Return

SpecBatch == InitBatch /\ [][NextBatch]_vars

\* the records page `url` holds under the run's mapping
PageRecords(url) ==
    parse_page(selector_map, StartUrl, Html(PageOf(url), site[PageOf(url)]))

\* the records of the pages of a batch that did not fail, in batch order
RECURSIVE BatchRecords(_)
BatchRecords(ts) ==
    IF ts = <<>> THEN <<>>
    ELSE (IF Head(ts).status = "ok" THEN PageRecords(Head(ts).url) ELSE <<>>)
         \o BatchRecords(Tail(ts))

\* C6: when gather returns, every failed page of the batch contributes no
\* record and the records of every other page are appended to the result in
\* the order the pages were requested.
C6_FaultIsolation ==
    [][(pc = "gather" /\ pc' = "loop")
        => all_records' = all_records \o BatchRecords(tasks)]_vars

\* pages 1, 2, 3 were requested in one batch, page 2 failed, and the result
\* holds the records of pages 1 and 3
C6_Witness ==
    /\ pc = "loop"
    /\ max_concurrent = 3
    /\ selector_map = MapFull
    /\ Len(fetched) = 3
    /\ PageUrl(1) \notin Range(pages_to_scrape)
    /\ page_count = 2
    /\ failures
    /\ all_records = PageRecords(PageUrl(1)) \o PageRecords(PageUrl(3))
(***************************************************************************)
(* scraper/deep_scraper.py: DeepScraper.enrich_records.                    *)
(***************************************************************************)
\* longest records list the model hands to enrich_records
MaxRecords == 3

F_bio == <<"b","i","o">>

Sel_bio == <<".bio">>
Sel_h1 == <<"h1">>
Sel_about == <<".about">>

\* the field holding the detail URL
detail_url_field == F_url

Hosts == {"a", "b"}

DetailUrl(host, i) == S_https \o <<host, "/", "d", "/", Digit(i)>>

\* the listing record at position i: its detail page is on host a or b, or
\* its URL field is None, or it has no URL field
ListingRecord(kind, i) ==
    LET name == F_name :> <<"n", Digit(i)>>
    IN  IF kind \in Hosts THEN OutputRecord(name @@ (F_url :> DetailUrl(kind, i)))
        ELSE IF kind = "none" THEN OutputRecord(name @@ (F_url :> Null))
        ELSE OutputRecord(name)

RecordKinds == Hosts \cup {"none", "missing"}

\* the parsed HTML of a detail page: a heading and a .bio block on every
\* page, an .about block on the pages of host a only
DetailHtml(url) ==
    LET id == url[Len(url)]
        both == (Sel_h1 :> <<Leaf(Null, Null, <<"N", id>>)>>)
                @@ (Sel_bio :> <<Leaf(Null, Null, <<" ", "b", id>>)>>)
    IN  [href |-> Null, src |-> Null, text |-> <<>>,
         css |-> IF RestNetloc(UrlRest(url)) = <<"a">>
                 THEN both @@ (Sel_about :> <<Leaf(Null, Null, <<"A", id>>)>>)
                 ELSE both]

\* what the inference call may return for the detail schema: two different
\* mappings (the second without a selector for name), and one whose
\* record-boundary selector css() rejects
DetailMapA == SelectorMap((F_bio :> Sel_bio) @@ (F_name :> Sel_h1), Null, Null)
DetailMapB == SelectorMap((F_bio :> Sel_about) @@ (F_name :> Null), Null, Null)
DetailMapBad == SelectorMap((F_bio :> Sel_bio) @@ (F_name :> Sel_h1), Sel_bad, Null)

DetailResponses == {DetailMapA, DetailMapB, DetailMapBad}

\* dict.get
Get(data, key) == IF key \in DOMAIN data THEN data[key] ELSE Null

\* {**a, **b}
Merge(a, b) ==
    [k \in (DOMAIN a) \cup (DOMAIN b) |-> IF k \in DOMAIN b THEN b[k] ELSE a[k]]

\* _enrich_single_record from the parser on, for a mapping that parses
EnrichWith(record, mapping) ==
    LET detail_url == Get(record.data, detail_url_field)
        detail_records == parse_page(mapping, detail_url, DetailHtml(detail_url))
    IN  IF detail_records # <<>>
        THEN OutputRecord(Merge(record.data, detail_records[1].data))
        ELSE record

\* gather without return_exceptions
ReturnExceptionsOff == FALSE

\* asyncio.gather(*tasks, return_exceptions=True)
ReturnExceptions == TRUE

\* the state at the call enrich_records(records, detail_url_field)
InitEnrich ==
    /\ \E n \in 0..MaxRecords : \E kinds \in [1..n -> RecordKinds] :
        records = [i \in 1..n |-> ListingRecord(kinds[i], i)]
    /\ deep_max_concurrent \in 1..DeepMaxConcurrent
    /\ epc = "loop"
    /\ batch_start = 0
    /\ etasks = <<>>
    /\ enriched_records = <<>>
    /\ selector_cache = <<>>
    /\ infer_calls = <<>>
    /\ used_maps = <<>>
    /\ attempted = {}
    /\ failed = {}
    /\ site = [k \in Pages |-> Unknown]
    /\ use_browser = FALSE
    /\ max_pages = 1
    /\ max_concurrent = 1
    /\ visited_urls = {}
    /\ pc = "idle"
    /\ selector_map = NoSelectorMap
    /\ all_records = <<>>
    /\ pages_to_scrape = <<>>
    /\ page_count = 0
    /\ tasks = <<>>
    /\ current_url = Null
    /\ result = <<>>
    /\ raised = "none"
    /\ run = 0
    /\ fetched = <<>>
    /\ failures = FALSE
    /\ prev = NoPrev
    /\ infers = 0
    /\ parse_maps = {}
    /\ InferIdle
    /\ ParseIdle
    /\ CallIdle

\* the task without the early return for a record that has no detail URL
NewTaskNoSkip(record) ==
    [record |-> record, pc |-> "fetch", result |-> Null, error |-> "none"]

\* a task as gather starts it: _enrich_single_record runs to its first await;
\* a record without detail URL is returned at once
NewTask(record) ==
    IF Truthy(Get(record.data, detail_url_field))
    THEN [record |-> record, pc |-> "fetch", result |-> Null, error |-> "none"]
    ELSE [record |-> record, pc |-> "done", result |-> record, error |-> "none"]

\* for i in range(0, len(records), self.max_concurrent): the batch and its tasks
EnrichStartBatch ==
    /\ epc = "loop"
    /\ batch_start < Len(records)
    /\ LET batch == SubSeq(records, batch_start + 1,
                           Min(batch_start + deep_max_concurrent, Len(records)))
       IN  /\ etasks' = [j \in 1..Len(batch) |-> NewTask(batch[j])]
           /\ attempted' = attempted \cup
                {batch_start + j : j \in {x \in 1..Len(batch) :
                    NewTask(batch[x]).pc = "fetch"}}
    /\ epc' = "gather"
    /\ UNCHANGED <<records, deep_max_concurrent, batch_start, enriched_records,
                   selector_cache, infer_calls, used_maps, failed, driverVars, inferVars, parseVars, callVars>>

\* the task ends with an exception, raised by the fetch, by the inference
\* call or by the parser
TaskRaises(j, cause) ==
    /\ etasks' = [etasks EXCEPT ![j].pc = "exception", ![j].error = cause]
    /\ failed' = failed \cup {batch_start + j}

\* lines 112-121: parse the detail page with the mapping and merge
TaskFinishes(j, mapping) ==
    IF ParsePageRaises(mapping)
    THEN /\ TaskRaises(j, "extraction")
         /\ used_maps' = used_maps
    ELSE /\ etasks' = [etasks EXCEPT ![j].pc = "done",
                                     ![j].result = EnrichWith(etasks[j].record, mapping)]
         /\ failed' = failed
         /\ LET domain == _get_domain(Get(etasks[j].record.data, detail_url_field))
            IN  used_maps' = IF domain \in DOMAIN used_maps
                             THEN [used_maps EXCEPT ![domain] = @ \cup {mapping}]
                             ELSE used_maps @@ (domain :> {mapping})

\* the detail page fetch of task j ends; on a cache hit the task runs to its
\* end, on a miss it awaits the inference call
EnrichFetched(j) ==
    /\ epc = "gather"
    /\ etasks[j].pc = "fetch"
    /\ LET domain == _get_domain(Get(etasks[j].record.data, detail_url_field))
       IN  \/ /\ TaskRaises(j, "fetch")
              /\ UNCHANGED <<infer_calls, used_maps>>
           \/ /\ domain \notin DOMAIN selector_cache
              /\ etasks' = [etasks EXCEPT ![j].pc = "infer"]
              /\ infer_calls' = IF domain \in DOMAIN infer_calls
                                THEN [infer_calls EXCEPT ![domain] = @ + 1]
                                ELSE infer_calls @@ (domain :> 1)
              /\ UNCHANGED <<used_maps, failed>>
           \/ /\ domain \in DOMAIN selector_cache
              /\ TaskFinishes(j, selector_cache[domain])
              /\ UNCHANGED infer_calls
    /\ UNCHANGED <<records, deep_max_concurrent, epc, batch_start, enriched_records,
                   selector_cache, attempted, driverVars, inferVars, parseVars, callVars>>

\* an inference call whose failure stores a mapping without selectors for
\* the origin
EnrichInferredMarks(j) ==
    /\ epc = "gather"
    /\ etasks[j].pc = "infer"
    /\ LET domain == _get_domain(Get(etasks[j].record.data, detail_url_field))
       IN  \/ /\ TaskRaises(j, "inference")
              /\ selector_cache' = IF domain \in DOMAIN selector_cache
                                   THEN selector_cache
                                   ELSE selector_cache @@ (domain :> NoSelectorMap)
              /\ UNCHANGED used_maps
           \/ \E mapping \in DetailResponses :
              /\ selector_cache' = IF domain \in DOMAIN selector_cache
                                   THEN [selector_cache EXCEPT ![domain] = mapping]
                                   ELSE selector_cache @@ (domain :> mapping)
              /\ TaskFinishes(j, mapping)
    /\ UNCHANGED <<records, deep_max_concurrent, epc, batch_start, enriched_records,
                   infer_calls, attempted, driverVars, inferVars, parseVars, callVars>>

\* the inference call of task j ends: it raises, or its mapping is stored in
\* the cache and the task runs to its end
EnrichInferred(j) ==
    /\ epc = "gather"
    /\ etasks[j].pc = "infer"
    /\ LET domain == _get_domain(Get(etasks[j].record.data, detail_url_field))
       IN  \/ /\ TaskRaises(j, "inference")
              /\ UNCHANGED <<selector_cache, used_maps>>
           \/ \E mapping \in DetailResponses :
              /\ selector_cache' = IF domain \in DOMAIN selector_cache
                                   THEN [selector_cache EXCEPT ![domain] = mapping]
                                   ELSE selector_cache @@ (domain :> mapping)
              /\ TaskFinishes(j, mapping)
    /\ UNCHANGED <<records, deep_max_concurrent, epc, batch_start, enriched_records,
                   infer_calls, attempted, driverVars, inferVars, parseVars, callVars>>

\* the result loop without its isinstance(result, Exception) branch's append
RECURSIVE BatchResultsSkip(_)
BatchResultsSkip(ts) ==
    IF ts = <<>> THEN <<>>
    ELSE (IF Head(ts).pc = "exception" THEN <<>> ELSE <<Head(ts).result>>)
         \o BatchResultsSkip(Tail(ts))

\* for idx, result in enumerate(batch_results)
RECURSIVE BatchResults(_)
BatchResults(ts) ==
    IF ts = <<>> THEN <<>>
    ELSE <<IF Head(ts).pc = "exception" THEN Head(ts).record ELSE Head(ts).result>>
         \o BatchResults(Tail(ts))

\* gather returns once every task has ended; without return_exceptions the
\* first exception would leave enrich_records
EnrichGather ==
    /\ epc = "gather"
    /\ \A j \in 1..Len(etasks) : etasks[j].pc \in {"done", "exception"}
    /\ IF ~ReturnExceptions /\ \E j \in 1..Len(etasks) : etasks[j].pc = "exception"
       THEN /\ epc' = "raised"
            /\ UNCHANGED <<enriched_records, batch_start>>
       ELSE /\ enriched_records' = enriched_records \o BatchResults(etasks)
            /\ batch_start' = batch_start + deep_max_concurrent
            /\ epc' = "loop"
    /\ etasks' = <<>>
    /\ UNCHANGED <<records, deep_max_concurrent, selector_cache, infer_calls, used_maps,
                   attempted, failed, driverVars, inferVars, parseVars, callVars>>

\* return enriched_records
EnrichReturn ==
    /\ epc = "loop"
    /\ batch_start >= Len(records)
    /\ epc' = "done"
    /\ UNCHANGED <<records, deep_max_concurrent, batch_start, etasks, enriched_records,
                   selector_cache, infer_calls, used_maps, attempted, failed, driverVars, inferVars, parseVars, callVars>>

NextEnrich ==
    \/ EnrichStartBatch
    \/ \E j \in 1..Len(etasks) : EnrichFetched(j)
    \/ \E j \in 1..Len(etasks) : EnrichInferred(j)
    \/ EnrichGather
    \/ EnrichReturn

SpecEnrich == InitEnrich /\ [][NextEnrich]_vars
(***************************************************************************)
(* Properties of enrich_records.                                           *)
(***************************************************************************)
\* the positions of the records that have a detail URL
WithDetailUrl == {i \in 1..Len(records) : Truthy(Get(records[i].data, detail_url_field))}

\* C7: within one enrich_records call at most one selector-inference call is
\* made per origin, for every interleaving of the tasks of a batch.
C7_OneInferencePerOrigin == \A d \in DOMAIN infer_calls : infer_calls[d] <= 1

\* C8: a mapping stored in the cache for an origin is never replaced, and no
\* record of that origin is extracted with a mapping other than the cached
\* one, so all detail pages of an origin are extracted with one mapping.
C8_OneMappingPerOrigin ==
    [][/\ \A d \in DOMAIN selector_cache : selector_cache'[d] = selector_cache[d]
       /\ \A d \in DOMAIN used_maps' :
            /\ d \in DOMAIN selector_cache'
            /\ used_maps'[d] \subseteq {selector_cache'[d]}]_vars

\* C9: enrich_records preserves order and count: the output never outgrows
\* the input, at the return it has the input's length, and its element i is
\* input record i or the enrichment of input record i with some mapping.
C9_OrderAndCount ==
    /\ Len(enriched_records) <= Len(records)
    /\ epc = "done" => Len(enriched_records) = Len(records)
    /\ \A i \in 1..Len(enriched_records) :
        \/ enriched_records[i] = records[i]
        \/ /\ i \in WithDetailUrl
           /\ \E m \in DetailResponses : ~ParsePageRaises(m)
                /\ enriched_records[i] = EnrichWith(records[i], m)

\* a call with batches of two returned: the first record has no detail URL,
\* the second failed, the third was enriched in the second batch
C9_Witness ==
    /\ epc = "done"
    /\ deep_max_concurrent = 2
    /\ Len(records) = 3
    /\ 1 \notin WithDetailUrl
    /\ 2 \in failed
    /\ enriched_records[3] # records[3]

\* C10: a record whose fetch, inference or extraction raised keeps its
\* original record at its position; every record with a detail URL, of the
\* same batch and of later batches, has been processed when enrich_records
\* returns (its task ran: it failed or its result is in the output); and
\* enrich_records does not raise.
C10_FailureIsolation ==
    /\ epc # "raised"
    /\ \A i \in failed : i <= Len(enriched_records) => enriched_records[i] = records[i]
    /\ epc = "done" =>
        /\ attempted = WithDetailUrl
        /\ \A i \in attempted \ failed :
            \E m \in DetailResponses : ~ParsePageRaises(m)
                /\ enriched_records[i] = EnrichWith(records[i], m)

\* the first record's task raised, and the second record of its batch and
\* the record of the next batch were enriched all the same
C10_Witness ==
    /\ epc = "done"
    /\ deep_max_concurrent = 2
    /\ Len(records) = 3
    /\ failed = {1}
    /\ enriched_records[1] = records[1]
    /\ enriched_records[2] # records[2]
    /\ enriched_records[3] # records[3]

\* the first record of the detail page of `record` under `mapping`, <<>> if none
DetailData(record, mapping) ==
    LET detail_url == Get(record.data, detail_url_field)
        detail_records == parse_page(mapping, detail_url, DetailHtml(detail_url))
    IN  IF detail_records = <<>> THEN <<>> ELSE detail_records[1].data

\* the original's fields overlaid by the non-null fields of the detail record
Overlay(a, b) ==
    [k \in (DOMAIN a) \cup (DOMAIN b) |->
        IF k \in DOMAIN b /\ b[k] # Null THEN b[k] ELSE Get(a, k)]

\* C11: an enriched record holds every key of the original; a key's value is
\* the detail record's where that is non-null and the original's otherwise,
\* so the merge never replaces a non-null original value by null.
C11_MergeOverlay ==
    \A i \in 1..Len(enriched_records) :
        \/ enriched_records[i] = records[i]
        \/ /\ i \in WithDetailUrl
           /\ \E m \in DetailResponses : ~ParsePageRaises(m)
                /\ enriched_records[i] =
                        OutputRecord(Overlay(records[i].data, DetailData(records[i], m)))

\* the origin of the detail URL of record i
DomainOf(i) == _get_domain(Get(records[i].data, detail_url_field))

\* C12: a record without a non-null detail URL passes through unchanged; no
\* fetch is made for it, every inference call and every cache entry belongs
\* to the origin of a record that was fetched, and there are no more
\* inference calls for an origin than fetched records of that origin.
C12_PassThrough ==
    /\ \A i \in (1..Len(records)) \ WithDetailUrl :
        /\ i \notin attempted
        /\ i \notin failed
        /\ i <= Len(enriched_records) => enriched_records[i] = records[i]
    /\ \A d \in DOMAIN infer_calls :
        infer_calls[d] <= Cardinality({i \in attempted : DomainOf(i) = d})
    /\ \A d \in DOMAIN selector_cache : \E i \in attempted : DomainOf(i) = d

\* a record without detail URL went through the same batch as a record
\* that was fetched and enriched
C12_Witness ==
    /\ epc = "done"
    /\ Len(records) >= 2
    /\ deep_max_concurrent >= 2
    /\ 1 \notin WithDetailUrl
    /\ enriched_records[1] = records[1]
    /\ enriched_records[2] # records[2]
    /\ selector_cache # <<>>
(***************************************************************************)
(* scraper/llm.py: LLMSelectorInference.infer_selectors, the request loop. *)
(***************************************************************************)
max_retries == 5
base_delay == 2

\* infer_selectors calls the model makes on one LLMSelectorInference
MaxInferCalls == 2

RECURSIVE Pow(_, _)
Pow(b, e) == IF e = 0 THEN 1 ELSE b * Pow(b, e - 1)

\* a backoff that grows by base_delay a retry
delayLinear(n) == base_delay * (n + 1)

\* delay = base_delay * (2 ** attempt)
delay(n) == base_delay * Pow(2, n)

\* every error status is retried
RetryableAny(status) == TRUE

\* e.response.status_code == 429
Retryable(status) == status = 429

\* the statuses the endpoint answers with
Statuses == {200, 429, 401, 500}

\* client.post fails without a response: httpx.TimeoutException, httpx.ConnectError
TransportErrors == {"timeout", "connect"}

\* infer_selectors(html_sample, schema, url) is called
InferCall ==
    /\ ipc \in {"idle", "returned", "raised"}
    /\ icalls < MaxInferCalls
    /\ icalls' = icalls + 1
    /\ ilog' = IF ipc = "idle" THEN ilog
               ELSE Append(ilog, [requests |-> requests, waits |-> waits,
                                  error |-> error, inferred |-> inferred])
    /\ ipc' = "request"
    /\ attempt' = 0
    /\ inferred' = NoSelectorMap
    /\ error' = "none"
    /\ requests' = 0
    /\ rate_limited' = 0
    /\ waits' = <<>>
    /\ UNCHANGED <<driverVars, enrichVars, parseVars, callVars>>

\* one pass of `for attempt in range(max_retries)` up to the sleep: the
\* request, raise_for_status and the except clause
Post ==
    /\ ipc = "request"
    /\ attempt < max_retries
    /\ requests' = requests + 1
    /\ \/ \E status \in Statuses :
          /\ rate_limited' = IF status = 429 THEN rate_limited + 1 ELSE rate_limited
          /\ IF status = 200
             THEN ipc' = "parse" /\ error' = error
             ELSE IF Retryable(status) /\ attempt < max_retries - 1
                  THEN ipc' = "sleep" /\ error' = error
                  ELSE ipc' = "raised" /\ error' = ToString(status)
       \/ \E e \in TransportErrors :
          /\ ipc' = "raised"
          /\ error' = e
          /\ rate_limited' = rate_limited
    /\ UNCHANGED <<attempt, inferred, waits, icalls, ilog, driverVars, enrichVars, parseVars, callVars>>

\* await asyncio.sleep(delay); continue
Sleep ==
    /\ ipc = "sleep"
    /\ waits' = Append(waits, delay(attempt))
    /\ attempt' = attempt + 1
    /\ ipc' = "request"
    /\ UNCHANGED <<inferred, error, requests, rate_limited, icalls, ilog,
                   driverVars, enrichVars, parseVars, callVars>>

\* after the loop: the content is read and the SelectorMap built, or the
\* content is not the JSON expected and reading it raises
ParseResponse ==
    /\ ipc = "parse"
    /\ \/ \E m \in LLMResponses : ipc' = "returned" /\ inferred' = m /\ error' = error
       \/ ipc' = "raised" /\ error' = "content" /\ inferred' = inferred
    /\ UNCHANGED <<attempt, requests, rate_limited, waits, icalls, ilog,
                   driverVars, enrichVars, parseVars, callVars>>

InitInfer ==
    /\ site = [k \in Pages |-> Unknown]
    /\ use_browser = FALSE
    /\ max_pages = 1
    /\ max_concurrent = 1
    /\ visited_urls = {}
    /\ pc = "idle"
    /\ selector_map = NoSelectorMap
    /\ all_records = <<>>
    /\ pages_to_scrape = <<>>
    /\ page_count = 0
    /\ tasks = <<>>
    /\ current_url = Null
    /\ result = <<>>
    /\ raised = "none"
    /\ run = 0
    /\ fetched = <<>>
    /\ failures = FALSE
    /\ prev = NoPrev
    /\ infers = 0
    /\ parse_maps = {}
    /\ EnricherIdle
    /\ InferIdle
    /\ ParseIdle
    /\ CallIdle

NextInfer ==
    \/ InferCall
    \/ Post
    \/ Sleep
    \/ ParseResponse

SpecInfer == InitInfer /\ [][NextInfer]_vars

\* the call has ended
InferEnded == ipc \in {"returned", "raised"}

\* C13: a call sends at most 5 requests; the k-th wait is 2*2^(k-1) seconds
\* and there are at most 4; there is one wait per 429 received, except that
\* the 429 just received is not slept on yet and the fifth 429 raises
\* without a wait; and a response that is not a 429 (a success included) is
\* the call's last request.
C13_RetryPolicy ==
    /\ requests <= 5
    /\ Len(waits) <= 4
    /\ \A k \in 1..Len(waits) : waits[k] = 2 * Pow(2, k - 1)
    /\ ipc = "request" => requests = rate_limited /\ Len(waits) = rate_limited
    /\ ipc = "sleep" => requests = rate_limited /\ Len(waits) = rate_limited - 1
    /\ (ipc = "raised" /\ error = "429") =>
            requests = 5 /\ rate_limited = 5 /\ Len(waits) = 4
    /\ ipc \in {"parse", "returned"} =>
            requests = rate_limited + 1 /\ Len(waits) = rate_limited

\* a first call was answered 429 five times and raised after four waits; the
\* next call was answered 429 once, waited 2 seconds and then succeeded
C13_Witness ==
    /\ Len(ilog) = 1
    /\ ilog[1].error = "429"
    /\ ilog[1].requests = 5
    /\ ilog[1].waits = <<2, 4, 8, 16>>
    /\ ipc = "returned"
    /\ requests = 2
    /\ waits = <<2>>

\* the failures other than rate limiting: another error status, a timeout,
\* a connection error
OtherFailure == ipc = "raised" /\ error \in {"401", "500"} \cup TransportErrors

\* C14 as stated: a failure other than a 429 response is raised after
\* exactly one request and without any backoff wait.
C14_ExactlyOneRequest == OtherFailure => requests = 1 /\ waits = <<>>

\* C14, amended: a failure other than a 429 response is raised at once: the
\* failing request is the call's last, every request before it was answered
\* 429 and no wait follows it; when no 429 came before, exactly one request
\* was made and no wait happened.
C14_FailImmediately ==
    OtherFailure =>
        /\ requests = rate_limited + 1
        /\ Len(waits) = rate_limited
        /\ rate_limited = 0 => requests = 1 /\ waits = <<>>

\* two 429 responses, then a 500: raised after the third request
C14_Witness ==
    /\ ipc = "raised"
    /\ error = "500"
    /\ requests = 3
    /\ waits = <<2, 4>>

\* C15: a failed selector-inference call that the run requires is fatal to
\* the run: when the inference call of a record's task has raised, gather
\* does not hand control back to the loop of enrich_records, whose normal
\* return is the normal return of scrape (core.py awaits it outside any try).
C15_InferenceFailureFatal ==
    [][(epc = "gather" /\ \E j \in 1..Len(etasks) : etasks[j].error = "inference")
            => epc' # "loop"]_vars
(***************************************************************************)
(* Claims about the mapping a run extracts with.                           *)
(***************************************************************************)
\* C16: a run infers the listing mapping exactly once: the call is made
\* after the first fetch and before any page of the loop is fetched or
\* extracted, no second call follows in the run, a run that extracts or
\* returns has made the call, and every page is extracted with the mapping
\* the call returned, unmodified.
C16_InferOncePerRun ==
    /\ [](/\ infers <= 1
          /\ parse_maps \subseteq {selector_map}
          /\ (parse_maps # {} \/ pc \in {"loop", "gather", "browser_fetch", "done"})
                => (infers = 1 /\ selector_map \in LLMResponses))
    /\ [][(run' = run /\ infers' # infers) =>
            /\ pc = "infer"
            /\ infers = 0
            /\ fetched = <<>>
            /\ parse_maps = {}]_vars
    /\ [][(run' = run /\ selector_map # NoSelectorMap) =>
            selector_map' = selector_map]_vars

\* a run that extracted pages 1 and 2 and returned
C16_Witness ==
    /\ pc = "done"
    /\ Len(fetched) = 2
    /\ ~failures
    /\ parse_maps = {MapFull}
(***************************************************************************)
(* scraper/parser.py: parse_page on pages of its own.  A page is a list of *)
(* entries; the mapping's field selectors match, match nothing, or fault.  *)
(***************************************************************************)
\* most entries a page holds
MaxItems == 5

\* a selector that is valid and matches no node
Sel_nomatch == <<".none">>

\* entry i of a page: with a name and a link, with a link only, with a name
\* only, or with a name node of blank text and nothing else
ItemKinds == {"full", "nameless", "nameonly", "blank"}

PItem(kind, i) ==
    LET name == <<Leaf(Null, Null, <<"n", Digit(i)>>)>>
        link == <<Leaf(<<"/", "d", "/", Digit(i)>>, Null, <<>>)>>
        node(css) == [href |-> Null, src |-> Null, text |-> <<>>, css |-> css]
    IN  CASE kind = "full" -> node((Sel_name :> name) @@ (Sel_link :> link))
          [] kind = "nameless" -> node(Sel_link :> link)
          [] kind = "nameonly" -> node(Sel_name :> name)
          [] OTHER -> node(Sel_name :> <<Leaf(Null, Null, <<" ">>)>>)

PItems(kinds) == [i \in 1..Len(kinds) |-> PItem(kinds[i], i)]

\* the parsed HTML of the page
PHtml(kinds) ==
    [href |-> Null, src |-> Null, text |-> <<>>,
     css |-> (Sel_item :> PItems(kinds))
             @@ (Sel_name :> Flatten(PItems(kinds), Sel_name))
             @@ (Sel_link :> Flatten(PItems(kinds), Sel_link))]

\* the mappings handed to the parser: each field selector matches, matches
\* nothing or faults; with and without a record-boundary selector
PMaps ==
    {SelectorMap((F_name :> n) @@ (F_url :> u), l, Null) :
        n \in {Sel_name, Sel_nomatch, Sel_bad},
        u \in {Sel_link, Sel_bad},
        l \in {Sel_item, Null}}

InitParse ==
    /\ \E n \in 0..MaxItems : p_items \in [1..n -> ItemKinds]
    /\ p_map \in PMaps
    /\ ppc = "call"
    /\ p_out = <<>>
    /\ site = [k \in Pages |-> Unknown]
    /\ use_browser = FALSE
    /\ max_pages = 1
    /\ max_concurrent = 1
    /\ visited_urls = {}
    /\ pc = "idle"
    /\ selector_map = NoSelectorMap
    /\ all_records = <<>>
    /\ pages_to_scrape = <<>>
    /\ page_count = 0
    /\ tasks = <<>>
    /\ current_url = Null
    /\ result = <<>>
    /\ raised = "none"
    /\ run = 0
    /\ fetched = <<>>
    /\ failures = FALSE
    /\ prev = NoPrev
    /\ infers = 0
    /\ parse_maps = {}
    /\ EnricherIdle
    /\ InferIdle
    /\ CallIdle

\* DirectoryParser(p_map, StartUrl).parse_page(html)
ParsePage ==
    /\ ppc = "call"
    /\ p_out' = parse_page(p_map, StartUrl, PHtml(p_items))
    /\ ppc' = "returned"
    /\ UNCHANGED <<p_items, p_map, driverVars, enrichVars, inferVars, callVars>>

NextParse == ParsePage

SpecParse == InitParse /\ [][NextParse]_vars

(***************************************************************************)
(* Claims about parse_page.                                                *)
(***************************************************************************)
PFields == DOMAIN p_map.selectors

\* the fields whose selector faults
FaultFields == {f \in PFields : Faults(p_map.selectors[f])}

\* the mapping with every faulting field selector replaced by one that is
\* valid and matches nothing
Unfaulted(m) ==
    SelectorMap([f \in DOMAIN m.selectors |->
                    IF Faults(m.selectors[f]) THEN Sel_nomatch ELSE m.selectors[f]],
                m.list_item_selector, m.pagination_selector)

\* C17: a fault of a field's selector is caught in that field: the page
\* gives as many records as if the selector had matched nothing, the
\* faulting field is null in each, and every other field is present or
\* absent, and valued, as in that case.
C17_FieldFaultLocal ==
    ppc = "returned" =>
        LET ref == parse_page(Unfaulted(p_map), StartUrl, PHtml(p_items))
        IN  /\ Len(p_out) = Len(ref)
            /\ \A i \in 1..Len(p_out) : \A f \in PFields :
                IF f \in FaultFields
                THEN Get(p_out[i].data, f) = Null
                ELSE /\ f \in DOMAIN p_out[i].data <=> f \in DOMAIN ref[i].data
                     /\ Get(p_out[i].data, f) = Get(ref[i].data, f)

\* the name selector faults on a page of three entries: the entry with a
\* link and the entry with name and link give records, the one with only a
\* name gives none
C17_Witness ==
    /\ ppc = "returned"
    /\ p_map = SelectorMap((F_name :> Sel_bad) @@ (F_url :> Sel_link), Sel_item, Null)
    /\ p_items = <<"full", "nameonly", "nameless">>
    /\ Len(p_out) = 2
    /\ p_out[2].data[F_url] = S_https \o <<"a", "/", "d", "/", "3">>

\* whether field f of an entry of this kind has a value under the mapping
NonNull(kind, f) ==
    LET selector == p_map.selectors[f]
    IN  \/ selector = Sel_name /\ kind \in {"full", "nameonly"}
        \/ selector = Sel_link /\ kind \in {"full", "nameless"}

\* the positions, from i on and in document order, of the entries that have
\* a value in some field
RECURSIVE KeptFrom(_)
KeptFrom(i) ==
    IF i > Len(p_items) THEN <<>>
    ELSE (IF \E f \in PFields : NonNull(p_items[i], f) THEN <<i>> ELSE <<>>)
         \o KeptFrom(i + 1)

\* C19: with a record-boundary selector, parse_page gives one record for
\* each matched entry that has a value in some field, in document order,
\* and none for the entries whose fields are all null; the record of an
\* entry holds that entry's values and null for exactly its absent fields.
C19_FieldAbsence ==
    (ppc = "returned" /\ Truthy(p_map.list_item_selector)) =>
        LET kept == KeptFrom(1)
        IN  /\ Len(p_out) = Len(kept)
            /\ \A j \in 1..Len(p_out) : \A f \in PFields :
                LET value == Get(p_out[j].data, f)
                IN  IF NonNull(p_items[kept[j]], f)
                    THEN value = IF f = F_name
                                 THEN <<"n", Digit(kept[j])>>
                                 ELSE S_https \o <<"a", "/", "d", "/", Digit(kept[j])>>
                    ELSE value = Null

\* five matched entries, three of them with a name and all with a link:
\* five records, the second and the fourth with a null name
C19_Witness ==
    /\ ppc = "returned"
    /\ p_map = SelectorMap(ListingSelectors, Sel_item, Null)
    /\ p_items = <<"full", "nameless", "full", "nameless", "full">>
    /\ Len(p_out) = 5
    /\ {j \in 1..5 : Get(p_out[j].data, F_name) = Null} = {2, 4}

(***************************************************************************)
(* Claims about extraction inside a run (scraper/core.py with              *)
(* scraper/parser.py).                                                     *)
(***************************************************************************)
\* the records the field selectors and the record-boundary selector of the
\* run's mapping extract from the page at url
Extractable(url) == parse_page(selector_map, StartUrl, Html(PageOf(url), 0))

\* the records of the pages of a batch whose fetch did not fail, in batch order
RECURSIVE FetchedRecords(_)
FetchedRecords(ts) ==
    IF ts = <<>> THEN <<>>
    ELSE (IF Head(ts).error # "fetch" THEN Extractable(Head(ts).url) ELSE <<>>)
         \o FetchedRecords(Tail(ts))

\* C18: a selector that fails to evaluate on a fetched page never aborts the
\* page: when a batch has been gathered, the records the other selectors
\* extract from every page of the batch that was fetched are added to the
\* run's result.
C18_NoPageAbort ==
    [][(pc = "gather" /\ pc' = "loop" /\ ~ParsePageRaises(selector_map))
        => all_records' = all_records \o FetchedRecords(tasks)]_vars

\* C20: the records and the next-page link of a page fetched at URL P are
\* resolved against P.
C20_ResolvedAgainstPage ==
    pc = "gather" =>
        \A i \in 1..Len(tasks) :
            tasks[i].status = "ok" =>
                LET P == tasks[i].url
                    html == Html(PageOf(P), site[PageOf(P)])
                IN  /\ tasks[i].records = parse_page(selector_map, P, html)
                    /\ tasks[i].next_url = find_next_page_url(selector_map, P, html)

(***************************************************************************)
(* Incomplete model responses (scraper/llm.py builds the SelectorMap with  *)
(* dict.get, so an absent key is None).                                    *)
(***************************************************************************)
\* the value the link of entry k resolves to under the run's parser
EntryLink(k) == S_https \o <<"a", "/", "1", "/", "d", Digit(k)>>

\* C21: within a run, a mapping without list_item_selector gives exactly one
\* record per parsed page, made of the first name and the first link of the
\* document; a mapping whose `name` selector is null or missing gives
\* records with a null name and the link of their entry, at least one per
\* parsed page; a mapping without pagination_selector makes the run fetch
\* the start page only and parse one page.
C21_GracefulDegradation ==
    InRun =>
        /\ ~Truthy(selector_map.list_item_selector) =>
            /\ Len(all_records) = page_count
            /\ \A i \in 1..Len(all_records) : \E k \in Pages :
                all_records[i].data = (F_name :> <<"n", Digit(k)>>) @@ (F_url :> EntryLink(k))
        /\ Get(selector_map.selectors, F_name) = Null =>
            /\ Len(all_records) >= page_count
            /\ \A i \in 1..Len(all_records) :
                /\ Get(all_records[i].data, F_name) = Null
                /\ \E k \in Pages : Get(all_records[i].data, F_url) = EntryLink(k)
        /\ ~Truthy(selector_map.pagination_selector) =>
            /\ Range(fetched) \subseteq {StartUrl}
            /\ page_count <= 1
            /\ pages_to_scrape \in {<<>>, <<StartUrl>>}

\* a run under the mapping with a null `name` selector has ended after the
\* start page and holds the record of its one entry with a link
C21_Witness ==
    /\ pc = "done"
    /\ selector_map = MapNullField
    /\ fetched = <<StartUrl>>
    /\ page_count = 1
    /\ all_records = <<OutputRecord((F_name :> Null) @@ (F_url :> EntryLink(1)))>>

(***************************************************************************)
(* scraper/core.py: DirectoryScraper._clean_records as a function of the   *)
(* records handed to it.                                                   *)
(***************************************************************************)
\* longest list handed to _clean_records
MaxCleanLen == 3

\* no scrape call is running
DriverIdle ==
    /\ site = [k \in Pages |-> Unknown]
    /\ use_browser = FALSE
    /\ max_pages = 1
    /\ max_concurrent = 1
    /\ visited_urls = {}
    /\ pc = "idle"
    /\ selector_map = NoSelectorMap
    /\ all_records = <<>>
    /\ pages_to_scrape = <<>>
    /\ page_count = 0
    /\ tasks = <<>>
    /\ current_url = Null
    /\ result = <<>>
    /\ raised = "none"
    /\ run = 0
    /\ fetched = <<>>
    /\ failures = FALSE
    /\ prev = NoPrev
    /\ infers = 0
    /\ parse_maps = {}

\* the data of the records handed in: both fields with or without a value,
\* a dict with one key, and dicts with a third field that is None
CleanData ==
    {(F_name :> x) @@ (F_url :> y) : x \in {Null, <<"a">>, <<"b">>}, y \in {Null, <<"a">>}}
    \cup {(F_url :> <<"a">>),
          (F_name :> <<"a">>) @@ (F_url :> <<"a">>) @@ (F_bio :> Null),
          (F_name :> <<"a">>) @@ (F_url :> Null) @@ (F_bio :> Null)}

InitClean ==
    /\ \E n \in 0..MaxCleanLen : \E d \in [1..n -> CleanData] :
        call_arg = [i \in 1..n |-> [data |-> d[i]]]
    /\ call_pc = "call"
    /\ call_ret = <<>>
    /\ DriverIdle
    /\ EnricherIdle
    /\ InferIdle
    /\ ParseIdle

\* self._clean_records(call_arg)
CleanRecords ==
    /\ call_pc = "call"
    /\ call_ret' = _clean_records(call_arg)
    /\ call_pc' = "returned"
    /\ UNCHANGED <<call_arg, driverVars, enrichVars, inferVars, parseVars>>

\* _clean_records applied to what it returned
CleanAgain ==
    /\ call_pc = "returned"
    /\ call_ret' = _clean_records(call_ret)
    /\ call_pc' = "recleaned"
    /\ UNCHANGED <<call_arg, driverVars, enrichVars, inferVars, parseVars>>

NextClean == CleanRecords \/ CleanAgain

SpecClean == InitClean /\ [][NextClean]_vars

\* the positions of the input whose record has at least 2 non-null fields
\* and differs from every earlier record
FirstOccurrences ==
    {i \in 1..Len(call_arg) :
        /\ Cardinality({k \in DOMAIN call_arg[i].data : call_arg[i].data[k] # Null}) >= 2
        /\ \A j \in 1..(i - 1) : call_arg[j].data # call_arg[i].data}

\* the n-th of these positions
NthFirst(n) ==
    CHOOSE i \in FirstOccurrences : Cardinality({j \in FirstOccurrences : j < i}) = n - 1

\* C22: _clean_records returns, in input order, exactly the first occurrence
\* of every distinct record with at least 2 non-null fields, and applied to
\* its own output it returns that output.
C22_CleanRecords ==
    /\ [](call_pc = "returned" =>
            /\ Len(call_ret) = Cardinality(FirstOccurrences)
            /\ \A n \in 1..Len(call_ret) : call_ret[n] = call_arg[NthFirst(n)])
    /\ [][(call_pc = "returned" /\ call_pc' = "recleaned") => call_ret' = call_ret]_vars

\* a record, a unique record with one non-null field, the first record
\* again: one record is returned, and cleaning that returns it again
C22_Witness ==
    /\ call_pc = "recleaned"
    /\ call_arg = <<[data |-> (F_name :> <<"a">>) @@ (F_url :> <<"a">>)],
                    [data |-> (F_name :> <<"b">>) @@ (F_url :> Null)],
                    [data |-> (F_name :> <<"a">>) @@ (F_url :> <<"a">>)]>>
    /\ call_ret = <<call_arg[1]>>

(***************************************************************************)
(* The two batch loops side by side: a run of the listing loop of          *)
(* _scrape_with_httpx, or a call of DeepScraper.enrich_records.            *)
(***************************************************************************)
InitConcurrency == InitBatch \/ InitEnrich

NextConcurrency == NextBatch \/ NextEnrich

SpecConcurrency == InitConcurrency /\ [][NextConcurrency]_vars

\* the listing-page fetches in flight
InFlight == {i \in 1..Len(tasks) : tasks[i].status = "pending"}

\* the detail-page tasks in flight
EnrichInFlight == {j \in 1..Len(etasks) : etasks[j].pc \notin {"done", "exception"}}

\* C23: at most max_concurrent listing-page fetches and at most
\* max_concurrent detail-page tasks are in flight, and outside gather, where
\* the next batch is cut, no task of a batch is in flight.
C23_ConcurrencyBound ==
    /\ Len(tasks) <= max_concurrent
    /\ Cardinality(InFlight) <= max_concurrent
    /\ pc # "gather" => InFlight = {}
    /\ Len(etasks) <= deep_max_concurrent
    /\ Cardinality(EnrichInFlight) <= deep_max_concurrent
    /\ deep_max_concurrent <= DeepMaxConcurrent
    /\ epc # "gather" => EnrichInFlight = {}

\* three pages are queued under max_concurrent = 2: two fetches are in
\* flight and the third page waits for the next batch
C23_Witness ==
    /\ pc = "gather"
    /\ max_concurrent = 2
    /\ Cardinality(InFlight) = 2
    /\ Len(pages_to_scrape) = 1

(***************************************************************************)
(* scraper/dom_sketch.py.  The document is the parsed tree after the noise *)
(* tags are removed, reduced to what make_dom_sketch reads: its tables, in *)
(* document order, and its other elements, in document order.  A table is  *)
(* [hdr, n, c, t]: an optional first row of c header cells, then n rows of *)
(* c data cells, every cell holding t characters of text.  An element is   *)
(* [tag, cls, nav, marker, d, x, dtag]: its tag and class attribute,       *)
(* whether an ancestor is nav, header or footer, whether its text holds a  *)
(* contact marker, and its d descendants, each with a tag name of dtag     *)
(* characters, no class, and x characters of text.  Texts are lengths: the *)
(* code only measures, truncates and emits them; the sketch is its length. *)
(***************************************************************************)
S_table == <<"t","a","b","l","e">>
S_div == <<"d","i","v">>
S_li == <<"l","i">>
S_a == <<"a">>
S_article == <<"a","r","t","i","c","l","e">>
S_span == <<"s","p","a","n">>
S_NA == <<"N","/","A">>

\* len(str(n))
DecimalLen(n) == IF n < 10 THEN 1 ELSE IF n < 100 THEN 2 ELSE 3

\* a list of lines, kept as the number of lines and the sum of their lengths
NoLines == [lines |-> 0, chars |-> 0]

\* lines.append(text of the given length)
Line(len) == [lines |-> 1, chars |-> len]

\* one list of lines after another
Then(a, b) == [lines |-> a.lines + b.lines, chars |-> a.chars + b.chars]

\* the same lines n times over
Times(a, n) == [lines |-> n * a.lines, chars |-> n * a.chars]

\* len('\n'.join(lines))
JoinLen(a) == IF a.lines = 0 THEN 0 ELSE a.chars + a.lines - 1

\* n copies of x
Repeat(x, n) == [i \in 1..n |-> x]

\* len(_truncate(text, max_len)) for a text of text_len characters without
\* white space
_truncate(text_len, max_len) == IF text_len > max_len THEN max_len + 3 ELSE text_len

\* len(_describe_cell(cell, max_text)) for a cell of plain text
_describe_cell(table, max_text) == _truncate(table.t, max_text)

\* len(table.css('tr'))
TableRows(table) == table.n + (IF table.hdr THEN 1 ELSE 0)

\* lines 23-33: the rows with a td; when they are fewer than 5, the rows
\* whose td and th texts together are longer than 20 characters instead
data_rows(table) ==
    IF table.n >= 5 THEN table.n
    ELSE IF table.c * table.t > 20 THEN TableRows(table) ELSE 0

\* len(_sketch_table(table, max_rows, max_text)); the table has no class and
\* no id
_sketch_table(table, max_rows, max_text) ==
    LET headers == IF table.hdr THEN table.c ELSE 0
        all_rows == table.n
        sample_rows == Min(all_rows, max_rows)
        header_lines ==
            IF headers > 0
            THEN Then(Line(13),
                 Then(Times(Line(13 + _truncate(table.t, 60)), Min(headers, 10)),
                      Line(15)))
            ELSE NoLines
        row_lines ==
            Then(Line(8),
            Then(Times(Line(15 + _describe_cell(table, max_text)), Min(table.c, 10)),
                 Line(9)))
        total == Line(17 + DecimalLen(all_rows) + 10 + DecimalLen(sample_rows) + 5)
    IN  JoinLen(Then(Line(7), Then(header_lines, Then(Line(9),
                Then(Times(row_lines, sample_rows),
                Then(Line(10), Then(Line(8), total)))))))

\* len(e.text(deep=True, strip=True))
TextLen(e) == e.d * e.x

\* the lines _show_descendants adds for one container: the first 50
\* significant descendants, each shown when its shortened text is longer
\* than 5 characters (none has a class or a href)
_show_descendants(elem) ==
    LET significant == IF elem.x > 2 THEN elem.d ELSE 0
        text_short == _truncate(elem.x, 50)
    IN  IF text_short > 5
        THEN Times(Line(2 + (elem.dtag + 2) + text_short + (elem.dtag + 3)),
                   Min(significant, 50))
        ELSE NoLines

\* the elements at the positions in idx, in order
SelectAt(elements, idx) ==
    LET F[i \in 0..Len(elements)] ==
            IF i = 0 THEN <<>>
            ELSE IF i \in idx THEN Append(F[i - 1], elements[i]) ELSE F[i - 1]
    IN  F[Len(elements)]

\* len(_sketch_repeated_elements(elements, max_text))
_sketch_repeated_elements(elements, max_text) ==
    LET HasContent(e) == TextLen(e) > 10
        found == Take(SelectAt(elements, {i \in 1..Len(elements) : HasContent(elements[i])}), 5)
        non_empty == IF found = <<>> THEN Take(elements, 5) ELSE found
        ElemLines(e) ==
            LET cls == Min(Len(e.cls), 80)
                attrs == IF cls > 0 THEN 7 + cls + 1 ELSE 0
            IN  Then(Line(1 + Len(e.tag) + 1 + attrs + 1),
                Then(_show_descendants(e),
                Then(Line(Len(e.tag) + 3), Line(0))))
        All[i \in 0..Len(non_empty)] ==
            IF i = 0 THEN NoLines ELSE Then(All[i - 1], ElemLines(non_empty[i]))
        total == Line(18 + DecimalLen(Len(non_empty)) + 8 + DecimalLen(Len(elements)) + 10)
    IN  JoinLen(Then(All[Len(non_empty)], total))

\* lines 44-52
patterns ==
    << [keyword |-> <<"c","o","m","p","a","n","y">>, allowed_tags |-> {S_a, S_div, S_article}],
       [keyword |-> <<"m","e","m","b","e","r">>, allowed_tags |-> {S_div, S_article, S_li}],
       [keyword |-> <<"p","r","o","f","i","l","e">>, allowed_tags |-> {S_div, S_article, S_a}],
       [keyword |-> <<"c","a","r","d">>, allowed_tags |-> {S_div, S_article}],
       [keyword |-> <<"l","i","s","t","i","n","g">>, allowed_tags |-> {S_div, S_article, S_li}],
       [keyword |-> <<"e","n","t","r","y">>, allowed_tags |-> {S_div, S_article, S_li}],
       [keyword |-> <<"r","e","s","u","l","t">>, allowed_tags |-> {S_div, S_li}] >>

\* containers without the walk up the ancestors
containersAnywhere(elements, pattern) ==
    LET Keep(e) == /\ Contains(e.cls, pattern.keyword)
                   /\ e.tag \in pattern.allowed_tags
                   /\ ~(TextLen(e) < 30)
    IN  SelectAt(elements, {i \in 1..Len(elements) : Keep(elements[i])})

\* lines 55-72: the containers of one pattern
containers(elements, pattern) ==
    LET Keep(e) == /\ Contains(e.cls, pattern.keyword)
                   /\ e.tag \in pattern.allowed_tags
                   /\ ~(TextLen(e) < 30)
                   /\ ~e.nav
    IN  SelectAt(elements, {i \in 1..Len(elements) : Keep(elements[i])})

\* lines 83-89
substantial(elements) ==
    LET Keep(e) == /\ e.tag \in {S_div, S_article, S_li}
                   /\ TextLen(e) > 50
                   /\ e.marker
    IN  SelectAt(elements, {i \in 1..Len(elements) : Keep(elements[i])})

\* tag[class*="keyword"]
ClassSelector(tag, keyword) ==
    tag \o <<"[","c","l","a","s","s","*","=","\"">> \o keyword \o <<"\"","]">>

Metadata(type, count, suggested_selector) ==
    [type |-> type, count |-> count, suggested_selector |-> suggested_selector]

\* what a strategy gives when it does not match
NoSketch == [sketch |-> 0, metadata |-> Metadata("none", 0, <<>>)]

\* strategy 1 over the tables in document order
RECURSIVE TableStrategy(_, _, _)
TableStrategy(tables, max_items, max_text) ==
    IF tables = <<>> THEN NoSketch
    ELSE IF data_rows(Head(tables)) >= 3
         THEN [sketch |-> _sketch_table(Head(tables), max_items, max_text),
               metadata |-> Metadata("table", data_rows(Head(tables)), S_table)]
         ELSE TableStrategy(Tail(tables), max_items, max_text)

\* strategy 2 from the i-th pattern on
RECURSIVE KeywordStrategy(_, _, _, _)
KeywordStrategy(elements, i, max_items, max_text) ==
    IF i > Len(patterns) THEN NoSketch
    ELSE LET found == containers(elements, patterns[i])
         IN  IF Len(found) >= 10
             THEN [sketch |-> _sketch_repeated_elements(Take(found, max_items), max_text),
                   metadata |-> Metadata("repeated_divs", Len(found),
                                         ClassSelector(found[1].tag, patterns[i].keyword))]
             ELSE KeywordStrategy(elements, i + 1, max_items, max_text)

\* strategy 3
ContentStrategy(elements, max_items, max_text) ==
    LET found == substantial(elements)
    IN  IF Len(found) >= 5
        THEN [sketch |-> _sketch_repeated_elements(Take(found, max_items), max_text),
              metadata |-> Metadata("content_divs", Len(found), found[1].tag)]
        ELSE NoSketch

\* a cascade that tries the keyword classes before the tables
make_dom_sketchKeywordFirst(doc, max_items, max_text) ==
    LET by_table == TableStrategy(doc.tables, max_items, max_text)
        by_keyword == KeywordStrategy(doc.elements, 1, max_items, max_text)
        by_content == ContentStrategy(doc.elements, max_items, max_text)
    IN  IF by_keyword # NoSketch THEN by_keyword
        ELSE IF by_table # NoSketch THEN by_table
        ELSE IF by_content # NoSketch THEN by_content
        ELSE [sketch |-> Min(doc.html_len, 25000),
              metadata |-> Metadata("unknown", 0, S_NA)]

\* make_dom_sketch(html, max_items, max_text)
make_dom_sketch(doc, max_items, max_text) ==
    LET by_table == TableStrategy(doc.tables, max_items, max_text)
        by_keyword == KeywordStrategy(doc.elements, 1, max_items, max_text)
        by_content == ContentStrategy(doc.elements, max_items, max_text)
    IN  IF by_table # NoSketch THEN by_table
        ELSE IF by_keyword # NoSketch THEN by_keyword
        ELSE IF by_content # NoSketch THEN by_content
        ELSE [sketch |-> Min(doc.html_len, 25000),
              metadata |-> Metadata("unknown", 0, S_NA)]

(***************************************************************************)
(* make_dom_sketch as a function of the document handed to it.             *)
(***************************************************************************)
\* most rows of a table, most elements of one kind
MaxRows == 10
MaxCards == 12

S_member_card == <<"m","e","m","b","e","r","-","c","a","r","d">>
S_company == <<"c","o","m","p","a","n","y">>
S_result_row == <<"r","e","s","u","l","t","-","r","o","w">>

Element(tag, cls, nav, marker, d, x, dtag) ==
    [tag |-> tag, cls |-> cls, nav |-> nav, marker |-> marker, d |-> d, x |-> x,
     dtag |-> dtag]

\* the kinds of elements a document holds
ElementKinds ==
    { Element(S_div, S_member_card, FALSE, TRUE, 3, 10, 4),   \* 30 characters
      Element(S_div, S_member_card, FALSE, TRUE, 3, 20, 4),   \* 60 characters
      Element(S_div, S_member_card, FALSE, TRUE, 1, 29, 4),   \* 29 characters
      Element(S_div, S_member_card, TRUE, TRUE, 3, 20, 4),    \* inside nav
      Element(S_span, S_member_card, FALSE, TRUE, 3, 20, 4),  \* tag not allowed
      Element(S_a, S_company, FALSE, FALSE, 3, 20, 4),
      Element(S_li, S_result_row, FALSE, TRUE, 3, 20, 4),
      Element(S_div, <<>>, FALSE, TRUE, 3, 20, 4),            \* no class
      Element(S_div, S_member_card, FALSE, TRUE, 51, 51, 40), \* long tag names
      Element(S_div, S_member_card, FALSE, TRUE, 51, 51, 4) } \* past every cap

\* the tables a document holds; one without rows is never sketched
TableKinds ==
    [hdr : BOOLEAN, n : 0..MaxRows, c : {3}, t : {5, 25}]
    \cup [hdr : {TRUE}, n : 0..MaxRows, c : {1, 11}, t : {121}]

NoTable == [hdr |-> FALSE, n |-> 0, c |-> 3, t |-> 5]

\* the documents: two tables and no other element, or at most a table that
\* does not qualify and two runs of elements of one kind each
Documents ==
    { [tables |-> <<t1, t2>>, elements |-> <<>>, html_len |-> 30000] :
        t1 \in TableKinds, t2 \in [hdr : {FALSE}, n : 0..MaxRows, c : {3}, t : {25}] }
    \cup
    { [tables |-> <<t1>>, elements |-> Repeat(k1, n1) \o Repeat(k2, n2), html_len |-> h] :
        t1 \in {NoTable, [hdr |-> FALSE, n |-> 4, c |-> 3, t |-> 5],
                [hdr |-> FALSE, n |-> 6, c |-> 3, t |-> 5]},
        k1 \in ElementKinds, k2 \in ElementKinds,
        n1 \in {0, MaxCards - 3, MaxCards - 2, MaxCards}, n2 \in {0, 4, 5, MaxCards},
        h \in {1000, 30000} }

InitSketch ==
    /\ \E doc \in Documents : \E max_items \in {2, 5} :
        call_arg = [doc |-> doc, max_items |-> max_items, max_text |-> 120]
    /\ call_pc = "call"
    /\ call_ret = NoSketch
    /\ DriverIdle
    /\ EnricherIdle
    /\ InferIdle
    /\ ParseIdle

\* sketch_html, metadata = make_dom_sketch(html_sample, max_items, max_text)
MakeDomSketch ==
    /\ call_pc = "call"
    /\ call_ret' = make_dom_sketch(call_arg.doc, call_arg.max_items, call_arg.max_text)
    /\ call_pc' = "returned"
    /\ UNCHANGED <<call_arg, driverVars, enrichVars, inferVars, parseVars>>

NextSketch == MakeDomSketch

SpecSketch == InitSketch /\ [][NextSketch]_vars

(***************************************************************************)
(* Claims about make_dom_sketch.                                           *)
(***************************************************************************)
Sketched == call_pc = "returned"

MinOf(S) == CHOOSE x \in S : \A y \in S : x <= y

Doc == call_arg.doc

Meta == call_ret.metadata

\* the table and the element that sit exactly at every cap of the sketch:
\* max_items rows of ten cells under ten header cells, every text one
\* character past its truncation; a class of 80 characters, 50 descendants
\* with the longest tag name of HTML and a text past its truncation
CapTable(max_items, max_text) ==
    [hdr |-> TRUE, n |-> max_items, c |-> 10, t |-> max_text + 1]

CapElement == Element(S_article, Repeat("c", 80), FALSE, TRUE, 50, 51, 10)

\* C24: the sketch of a table is no longer than the sketch of the table at
\* every cap, the sketch of repeated elements no longer than the sketch of
\* max_items elements at every cap, both determined by max_items and
\* max_text only, and the fallback is at most 25000 characters.
C24_SketchBounded ==
    Sketched =>
        LET max_items == call_arg.max_items
            max_text == call_arg.max_text
        IN  /\ Meta.type = "table" =>
                call_ret.sketch <= _sketch_table(CapTable(max_items, max_text),
                                                 max_items, max_text)
            /\ Meta.type \in {"repeated_divs", "content_divs"} =>
                call_ret.sketch <= _sketch_repeated_elements(Repeat(CapElement, max_items),
                                                             max_text)
            /\ Meta.type = "unknown" => call_ret.sketch <= 25000

\* C25: a first table with n >= 3 rows that hold a data cell gives type
\* 'table' with count n, whatever the text of the rows and whether or not
\* there is a header row.
C25_TableOfThreeRows ==
    (Sketched /\ Doc.tables[1].n >= 3) =>
        Meta.type = "table" /\ Meta.count = Doc.tables[1].n

\* the tables that meet the threshold of strategy 1
QualifyingTables == {i \in 1..Len(Doc.tables) : data_rows(Doc.tables[i]) >= 3}

\* the patterns that have at least 10 containers
QualifyingPatterns ==
    {i \in 1..Len(patterns) : Len(containers(Doc.elements, patterns[i])) >= 10}

\* C26: the first strategy that matches wins: a table that meets the
\* threshold before any keyword class and before content density, and the
\* first such table in document order; the first keyword of the list that
\* has enough containers before any later keyword and before content
\* density; 'unknown' with count 0 exactly when nothing matches.
C26_OrderedCascade ==
    Sketched =>
        /\ QualifyingTables # {} =>
            /\ Meta.type = "table"
            /\ Meta.count = data_rows(Doc.tables[MinOf(QualifyingTables)])
        /\ (QualifyingTables = {} /\ QualifyingPatterns # {}) =>
            LET found == containers(Doc.elements, patterns[MinOf(QualifyingPatterns)])
            IN  /\ Meta.type = "repeated_divs"
                /\ Meta.count = Len(found)
                /\ Meta.suggested_selector =
                     ClassSelector(found[1].tag, patterns[MinOf(QualifyingPatterns)].keyword)
        /\ (QualifyingTables = {} /\ QualifyingPatterns = {}
            /\ Len(substantial(Doc.elements)) >= 5) =>
            Meta.type = "content_divs"
        /\ Meta.type = "unknown" <=>
            /\ QualifyingTables = {}
            /\ QualifyingPatterns = {}
            /\ Len(substantial(Doc.elements)) < 5
        /\ Meta.type = "unknown" => Meta.count = 0

\* a table of 6 rows before 12 member cards with contact markers: every
\* strategy matches and the document is classified 'table'
C26_Witness ==
    /\ Sketched
    /\ Doc.tables = <<[hdr |-> FALSE, n |-> 6, c |-> 3, t |-> 5]>>
    /\ Doc.elements = Repeat(Element(S_div, S_member_card, FALSE, TRUE, 3, 20, 4), MaxCards)
    /\ 2 \in QualifyingPatterns
    /\ Len(substantial(Doc.elements)) >= 5
    /\ Meta.type = "table"
    /\ Meta.count = 6

\* the elements that count for the i-th keyword: an allowed tag, the keyword
\* in the class, at least 30 characters of text, no nav, header or footer
\* above
Counting(i) ==
    {j \in 1..Len(Doc.elements) :
        LET e == Doc.elements[j]
        IN  /\ e.tag \in patterns[i].allowed_tags
            /\ Contains(e.cls, patterns[i].keyword)
            /\ e.d * e.x >= 30
            /\ ~e.nav}

\* C27: when no table qualifies, the document is classified by the i-th
\* keyword exactly when that keyword is the first with at least 10 counting
\* elements, and the count is the number of its counting elements.
C27_KeywordCards ==
    (Sketched /\ QualifyingTables = {}) =>
        \A i \in 1..Len(patterns) :
            LET first == /\ Cardinality(Counting(i)) >= 10
                         /\ \A j \in 1..(i - 1) : Cardinality(Counting(j)) < 10
                matched == /\ Meta.type = "repeated_divs"
                           /\ \E tag \in {S_a, S_div, S_article, S_li} :
                                Meta.suggested_selector =
                                    ClassSelector(tag, patterns[i].keyword)
            IN  /\ matched <=> first
                /\ matched => Meta.count = Cardinality(Counting(i))

\* 12 member cards of 60 characters and 5 more inside a nav: classified
\* 'repeated_divs' with count 12
C27_Witness ==
    /\ Sketched
    /\ Doc.tables = <<NoTable>>
    /\ Doc.elements =
         Repeat(Element(S_div, S_member_card, FALSE, TRUE, 3, 20, 4), MaxCards)
         \o Repeat(Element(S_div, S_member_card, TRUE, TRUE, 3, 20, 4), 5)
    /\ Meta.type = "repeated_divs"
    /\ Meta.count = 12

(***************************************************************************)
(* The order of the records of a run (HTTP mode).                          *)
(***************************************************************************)
\* what the tasks of a batch returned, in the order the tasks were created
RECURSIVE InRequestOrder(_)
InRequestOrder(ts) ==
    IF ts = <<>> THEN <<>> ELSE Head(ts).records \o InRequestOrder(Tail(ts))

\* the names of the entries of page k that have a field, in document order
EntryNames(k) ==
    IF k = 1 THEN << <<"n", Digit(1)>>, <<"x">> >>
    ELSE << <<"n", Digit(k)>>, <<"n", Digit(1)>> >>

IsPrefix(a, b) == Len(a) <= Len(b) /\ SubSeq(b, 1, Len(a)) = a

\* C28: the records a page's task returns are in document order; when a
\* batch has been gathered its records follow those of the earlier batches,
\* page by page in the order the pages were requested, whatever the order
\* the fetches ended in; and records once in the result keep their place.
C28_RecordOrder ==
    /\ [](pc = "gather" =>
            \A i \in 1..Len(tasks) :
                tasks[i].status = "ok" =>
                    [j \in 1..Len(tasks[i].records) |->
                        Get(tasks[i].records[j].data, F_name)]
                    = EntryNames(PageOf(tasks[i].url)))
    /\ [][(pc = "gather" /\ pc' = "loop")
            => all_records' = all_records \o InRequestOrder(tasks)]_vars
    /\ [][(pc \in {"loop", "gather"}) => IsPrefix(all_records, all_records')]_vars

\* pages 3 and 1 were requested in one batch and page 1 was fetched first,
\* page 2 in the next batch: the result holds the records of page 3, then
\* of page 1, then of page 2
C28_Witness ==
    /\ pc = "loop"
    /\ fetched = <<PageUrl(1), PageUrl(3), PageUrl(2)>>
    /\ [j \in 1..Len(all_records) |-> Get(all_records[j].data, F_name)]
        = EntryNames(3) \o EntryNames(1) \o EntryNames(2)

(***************************************************************************)
(* scraper/models.py: InputSchema, and the scraper built from it.          *)
(***************************************************************************)
\* the field dicts a caller may pass: every subset of the two fields, each
\* with a description
FieldDicts == UNION {[S -> {<<"d">>}] : S \in SUBSET {F_name, F_url}}

\* a validator that accepts every dict
validate_fieldsAny(v) == "ok"

\* InputSchema.validate_fields: `if not v: raise ValueError`
validate_fields(v) == IF DOMAIN v = {} THEN "ValueError" ELSE "ok"

InitSchema ==
    /\ call_arg \in FieldDicts
    /\ call_pc = "call"
    /\ call_ret = <<>>
    /\ site = [k \in Pages |-> Unknown]
    /\ use_browser \in BOOLEAN
    /\ max_pages = 1
    /\ max_concurrent = 1
    /\ visited_urls = {}
    /\ pc = "idle"
    /\ selector_map = NoSelectorMap
    /\ all_records = <<>>
    /\ pages_to_scrape = <<>>
    /\ page_count = 0
    /\ tasks = <<>>
    /\ current_url = Null
    /\ result = <<>>
    /\ raised = "none"
    /\ run = 0
    /\ fetched = <<>>
    /\ failures = FALSE
    /\ prev = NoPrev
    /\ infers = 0
    /\ parse_maps = {}
    /\ EnricherIdle
    /\ InferIdle
    /\ ParseIdle

\* InputSchema(fields=call_arg): the validator runs inside the constructor
ConstructSchema ==
    /\ call_pc = "call"
    /\ IF validate_fields(call_arg) = "ok"
       THEN call_pc' = "constructed" /\ call_ret' = call_arg
       ELSE call_pc' = "rejected" /\ call_ret' = call_ret
    /\ UNCHANGED <<call_arg, driverVars, enrichVars, inferVars, parseVars>>

\* DirectoryScraper(schema=input_schema, ...)
BuildScraper ==
    /\ call_pc = "constructed"
    /\ call_pc' = "built"
    /\ UNCHANGED <<call_arg, call_ret, driverVars, enrichVars, inferVars, parseVars>>

\* the scraper that was built runs
RunScraper == call_pc = "built" /\ Next

NextSchema == ConstructSchema \/ BuildScraper \/ RunScraper

SpecSchema == InitSchema /\ [][NextSchema]_vars

\* C29: with an empty field dict the constructor of InputSchema raises, and
\* no scraper is built, no scrape call starts, no page is fetched and no
\* inference call is made; every scraper that runs has a schema with a field.
C29_EmptySchemaRejected ==
    /\ DOMAIN call_arg = {} =>
        /\ call_pc \in {"call", "rejected"}
        /\ pc = "idle" /\ run = 0 /\ fetched = <<>> /\ infers = 0
    /\ call_pc = "rejected" => DOMAIN call_arg = {}
    /\ (pc # "idle" \/ run > 0) => (call_pc = "built" /\ DOMAIN call_ret # {})

\* the constructor has raised on the empty dict and nothing else happened
C29_Witness ==
    /\ call_pc = "rejected"
    /\ DOMAIN call_arg = {}
    /\ pc = "idle"
    /\ run = 0

(***************************************************************************)
(* scraper/parser.py: _extract_field on the matches of one field selector. *)
(***************************************************************************)
\* the most nodes a field selector matches inside one element
MaxMatches == 3

\* attribute values: absent (attributes.get gives None), empty, or a value
HrefValues == {Null, <<>>, <<"/", "h">>}
SrcValues == {Null, <<>>, <<"/", "s">>}
\* text contents: none, white space only, padded text, plain text
TextValues == {<<>>, <<" ", " ">>, <<" ", "t", " ", "x", " ">>, <<"t">>}

MatchNodes == {Leaf(h, s, t) : h \in HrefValues, s \in SrcValues, t \in TextValues}

\* the element a field is extracted from: the selector matches call_arg
FieldElement(matches) ==
    [href |-> Null, src |-> Null, text |-> <<>>, css |-> (Sel_name :> matches)]

\* the nodes after the first match
LaterNodes ==
    {Leaf(h, Null, t) : h \in HrefValues, t \in {<<>>, <<"t">>}}
        \cup {Leaf(Null, <<"/", "s">>, <<>>)}

InitField ==
    /\ call_arg \in {<<>>} \cup
          {<<first>> \o rest :
              first \in MatchNodes,
              rest \in UNION {[1..n -> LaterNodes] : n \in 0..(MaxMatches - 1)}}
    /\ call_pc = "call"
    /\ call_ret = <<>>
    /\ DriverIdle
    /\ EnricherIdle
    /\ InferIdle
    /\ ParseIdle

\* self._extract_field(element, selector)
ExtractField ==
    /\ call_pc = "call"
    /\ call_ret' = _extract_field(FieldElement(call_arg), Sel_name)
    /\ call_pc' = "returned"
    /\ UNCHANGED <<call_arg, driverVars, enrichVars, inferVars, parseVars>>

NextField == ExtractField

SpecField == InitField /\ [][NextField]_vars

\* s is text without its leading and trailing white space
TrimOf(s, text) ==
    /\ s = <<>> \/ (s[1] \notin WhiteSpace /\ s[Len(s)] \notin WhiteSpace)
    /\ \E i \in 1..(Len(text) - Len(s) + 1) :
          /\ SubSeq(text, i, i + Len(s) - 1) = s
          /\ \A j \in 1..Len(text) :
                (j < i \/ j >= i + Len(s)) => text[j] \in WhiteSpace

\* C30: when the selector of a field matches, the raw value comes from the
\* first match alone: its href if that is non-empty, else its src if that is
\* non-empty, else its trimmed text, or null when the trimmed text is empty,
\* whatever the later matches hold.
C30_FirstMatchOnly ==
    (call_pc = "returned" /\ call_arg # <<>>) =>
        LET first == call_arg[1]
            has(v) == v # Null /\ v # <<>>
        IN  /\ has(first.href) => call_ret = first.href
            /\ (~has(first.href) /\ has(first.src)) => call_ret = first.src
            /\ (~has(first.href) /\ ~has(first.src)) =>
                  \/ call_ret # Null /\ call_ret # <<>> /\ TrimOf(call_ret, first.text)
                  \/ call_ret = Null /\ TrimOf(<<>>, first.text)

\* the first of two matches has no href, no src and no text, the second one
\* has text: the value is null
C30_Witness ==
    /\ call_pc = "returned"
    /\ Len(call_arg) = 2
    /\ call_arg[1] = Leaf(<<>>, Null, <<>>)
    /\ call_arg[2] = Leaf(Null, Null, <<"t">>)
    /\ call_ret = Null

(***************************************************************************)
(* scraper/parser.py: find_next_page_url on the matches of the pagination  *)
(* selector.                                                               *)
(***************************************************************************)
\* the most nodes the pagination selector matches
MaxLinks == 3

\* the href of a matched node: absent, empty, an absolute URL, a path from
\* the root, a path relative to the page
NextHrefs == {Null, <<>>, PageUrl(2), <<"/", "3", "/", "p">>, <<"q">>}

\* the pagination selector of the mapping: None, the empty string, one that
\* matches nothing, one that matches call_arg.links
NextSelectors == {Null, <<>>, Sel_nomatch, Sel_next}

NextPageHtml(links) ==
    [href |-> Null, src |-> Null, text |-> <<>>, css |-> (Sel_next :> links)]

InitNextPage ==
    /\ call_arg \in
          {[selector |-> s, links |-> l] :
              s \in NextSelectors,
              l \in UNION {[1..n -> {Leaf(h, Null, <<>>) : h \in NextHrefs}] :
                              n \in 0..MaxLinks}}
    /\ call_pc = "call"
    /\ call_ret = <<>>
    /\ DriverIdle
    /\ EnricherIdle
    /\ InferIdle
    /\ ParseIdle

\* DirectoryParser(selector_map, StartUrl).find_next_page_url(html)
FindNextPage ==
    /\ call_pc = "call"
    /\ call_ret' = find_next_page_url(
                      SelectorMap(<<>>, Null, call_arg.selector),
                      StartUrl, NextPageHtml(call_arg.links))
    /\ call_pc' = "returned"
    /\ UNCHANGED <<call_arg, driverVars, enrichVars, inferVars, parseVars>>

NextNextPage == FindNextPage

SpecNextPage == InitNextPage /\ [][NextNextPage]_vars

\* the absolute form of an href found on the page https://a/1/p
AbsoluteForm(href) ==
    CASE href = PageUrl(2) -> PageUrl(2)
      [] href = <<"/", "3", "/", "p">> -> PageUrl(3)
      [] href = <<"q">> -> S_https \o <<"a", "/", "1", "/", "q">>

\* C31: find_next_page_url returns the absolute form of the href of the first
\* node, in document order, among the matches of the pagination selector that
\* has a non-empty href, and None when the selector is absent, matches nothing
\* or no match has an href.
C31_NextPageLookup ==
    call_pc = "returned" =>
        LET links == call_arg.links
            matched == IF call_arg.selector = Sel_next THEN links ELSE <<>>
            hasHref(i) == matched[i].href # Null /\ matched[i].href # <<>>
        IN  /\ (\A i \in 1..Len(matched) : ~hasHref(i)) => call_ret = Null
            /\ \A i \in 1..Len(matched) :
                  (hasHref(i) /\ \A j \in 1..(i - 1) : ~hasHref(j))
                      => call_ret = AbsoluteForm(matched[i].href)

\* two matches without an href are skipped and the third one, a path from the
\* root, is returned in absolute form
C31_Witness ==
    /\ call_pc = "returned"
    /\ call_arg.selector = Sel_next
    /\ Len(call_arg.links) = 3
    /\ call_arg.links[1].href = Null
    /\ call_arg.links[2].href = <<>>
    /\ call_arg.links[3].href = <<"/", "3", "/", "p">>
    /\ call_ret = PageUrl(3)

(***************************************************************************)
(* scraper/models.py: OutputRecord(data=...) on a record of one field.     *)
(***************************************************************************)
F_email == <<"e", "m", "a", "i", "l">>
F_Email == <<"E", "m", "a", "i", "l">>
F_page_url == <<"p", "a", "g", "e", "_", "u", "r", "l">>
F_link == <<"l", "i", "n", "k">>
F_email_url == <<"e", "m", "a", "i", "l", "_", "u", "r", "l">>

NormalKeys == {F_name, F_email, F_Email, F_page_url, F_link, F_email_url}

V_padded_email == <<" ", "j", "@", "e", ".", "c", "o", " ">>
V_two_emails == <<"x", " ", "j", "@", "e", ".", "c", "o", " ", "y", "@", "f", ".", "i", "o">>
V_schemeless == <<"e", ".", "o", "/", "x">>
V_http == <<"h", "t", "t", "p", ":", "/", "/", "e", "/", "x">>
V_https == <<"h", "t", "t", "p", "s", ":", "/", "/", "e", "/", "x">>
V_slashes == <<"/", "/", "e", "/", "x">>
V_blank == <<" ", " ">>
V_padded == <<" ", "n", " ">>
V_ftp == <<"f", "t", "p", ":", "/", "/", "e">>

\* the raw values: strings with and without padding, an email address, a URL
\* with and without a scheme, the empty string, and None
NormalValues ==
    {Null, <<>>, V_padded_email, V_two_emails, V_schemeless, V_http,
      V_https, V_slashes, V_blank, V_padded, V_ftp}

InitNormalize ==
    /\ call_arg \in {[key |-> k, value |-> v] : k \in NormalKeys, v \in NormalValues}
    /\ call_pc = "call"
    /\ call_ret = <<>>
    /\ DriverIdle
    /\ EnricherIdle
    /\ InferIdle
    /\ ParseIdle

\* OutputRecord(data={key: value}).data
Normalize ==
    /\ call_pc = "call"
    /\ call_ret' = OutputRecord(call_arg.key :> call_arg.value).data
    /\ call_pc' = "returned"
    /\ UNCHANGED <<call_arg, driverVars, enrichVars, inferVars, parseVars>>

\* OutputRecord(data=record.data).data: a record built from a record's data
NormalizeAgain ==
    /\ call_pc = "returned"
    /\ call_ret' = OutputRecord(call_ret).data
    /\ call_pc' = "renormalized"
    /\ UNCHANGED <<call_arg, driverVars, enrichVars, inferVars, parseVars>>

NextNormalize == Normalize \/ NormalizeAgain

SpecNormalize == InitNormalize /\ [][NextNormalize]_vars

\* the raw values without their padding, and the first email in them
Trimmed(v) ==
    CASE v = V_padded_email -> <<"j", "@", "e", ".", "c", "o">>
      [] v = V_blank -> <<>>
      [] v = V_padded -> <<"n">>
      [] OTHER -> v

FirstEmail(v) ==
    IF v \in {V_padded_email, V_two_emails} THEN <<"j", "@", "e", ".", "c", "o">> ELSE Trimmed(v)

HasWord(key, word) ==
    \E i \in 1..(Len(key) - Len(word) + 1) :
        Lower(SubSeq(key, i, i + Len(word) - 1)) = word

HasHttpScheme(v) ==
    \/ Len(v) >= 7 /\ SubSeq(v, 1, 7) = <<"h", "t", "t", "p", ":", "/", "/">>
    \/ Len(v) >= 8 /\ SubSeq(v, 1, 8) = <<"h", "t", "t", "p", "s", ":", "/", "/">>

\* the value the sentence gives for a raw value under a field name
Normalized(key, v) ==
    IF v = Null THEN Null
    ELSE LET e == IF HasWord(key, <<"e", "m", "a", "i", "l">>) THEN FirstEmail(v) ELSE Trimmed(v)
         IN  IF (HasWord(key, <<"u", "r", "l">>) \/ HasWord(key, <<"l", "i", "n", "k">>)) /\ e # <<>> /\ ~HasHttpScheme(e)
             THEN <<"h", "t", "t", "p", "s", ":", "/", "/">> \o e
             ELSE e

\* C32: a record is normalised when it is constructed: every string value is
\* trimmed, a value under a name containing "email" becomes the first email
\* in it, a non-empty value under a name containing "url" or "link" without
\* an http:// or https:// scheme gets the prefix https://, and normalising a
\* normalised record changes nothing.
C32_Normalization ==
    /\ call_pc = "returned" =>
          call_ret = (call_arg.key :> Normalized(call_arg.key, call_arg.value))
    /\ call_pc = "renormalized" =>
          call_ret = (call_arg.key :> Normalized(call_arg.key, call_arg.value))

(***************************************************************************)
(* scraper/parser.py: one DirectoryParser called again and again.  The     *)
(* parser holds selector_map and base_url (parser.py:10-12); p_map is the  *)
(* mapping it was built with, p_items the page of the call under way,      *)
(* p_out the records of the last call, call_ret the calls made so far.     *)
(***************************************************************************)
\* the most calls made on one parser
MaxCalls == 3

\* the pages handed to the parser, as lists of entries
RepeatPages == {<<>>, <<"full">>, <<"full", "nameonly">>, <<"blank", "nameless">>}

\* a page with its entries and, unless it is empty, an anchor to the next page
RepeatHtml(kinds) ==
    [PHtml(kinds) EXCEPT
        !.css = @ @@ (Sel_next :>
                        IF kinds = <<>> THEN <<>>
                        ELSE <<Leaf(Null, Null, <<>>),
                               Leaf(<<"/", Digit(Len(kinds) + 1), "/", "p">>, Null, <<>>)>>)]

RepeatMaps ==
    {SelectorMap((F_name :> n) @@ (F_url :> Sel_link), l, Sel_next) :
        n \in {Sel_name, Sel_bad}, l \in {Sel_item, Null}}

InitRepeat ==
    /\ p_map \in RepeatMaps
    /\ p_items = <<>>
    /\ ppc = "ready"
    /\ p_out = <<>>
    /\ call_pc = "idle"
    /\ call_arg = <<>>
    /\ call_ret = <<>>
    /\ DriverIdle
    /\ EnricherIdle
    /\ InferIdle

\* a parser that leaves out the records it returned in the call before
ParseAgainUnseen ==
    /\ ppc = "ready"
    /\ Len(call_ret) < MaxCalls
    /\ \E kinds \in RepeatPages :
        LET all == parse_page(p_map, StartUrl, RepeatHtml(kinds))
            seen == {p_out[i] : i \in 1..Len(p_out)}
            recs == SelectSeq(all, LAMBDA r : r \notin seen)
            next_url == find_next_page_url(p_map, StartUrl, RepeatHtml(kinds))
        IN  /\ p_items' = kinds
            /\ p_out' = recs
            /\ call_ret' = Append(call_ret,
                    [html |-> kinds, records |-> recs, next_url |-> next_url])
    /\ UNCHANGED <<p_map, ppc, call_pc, call_arg, driverVars, enrichVars, inferVars>>

\* parser.parse_page(html) and parser.find_next_page_url(html) on the same
\* parser: neither assigns to the parser or to anything outside the call
ParseAgain ==
    /\ ppc = "ready"
    /\ Len(call_ret) < MaxCalls
    /\ \E kinds \in RepeatPages :
        LET recs == parse_page(p_map, StartUrl, RepeatHtml(kinds))
            next_url == find_next_page_url(p_map, StartUrl, RepeatHtml(kinds))
        IN  /\ p_items' = kinds
            /\ p_out' = recs
            /\ call_ret' = Append(call_ret,
                    [html |-> kinds, records |-> recs, next_url |-> next_url])
    /\ UNCHANGED <<p_map, ppc, call_pc, call_arg, driverVars, enrichVars, inferVars>>

NextRepeat == ParseAgain

SpecRepeat == InitRepeat /\ [][NextRepeat]_vars

Distinct(s) == \A i, j \in 1..Len(s) : i # j => s[i] # s[j]

\* the URLs that a step adds to the queue
Enqueued == Range(pages_to_scrape') \ Range(pages_to_scrape)

\* C34: within a run every URL in the pending queue is in visited_urls, a
\* URL enters the queue only when it was not visited before (after the start
\* URL, which opens the run), so no URL is queued twice, and the loop fetches
\* no URL twice.
C34_NoRefetch ==
    /\ [](InRun =>
            /\ Range(pages_to_scrape) \subseteq visited_urls
            /\ Distinct(pages_to_scrape)
            /\ Range(pages_to_scrape) \cap Range(fetched) = {}
            /\ Distinct(fetched))
    /\ [][(pc # "infer") =>
            \A u \in Enqueued : u \notin visited_urls /\ u \in visited_urls']_vars
    /\ [][(pc = "infer") =>
            \A u \in Enqueued : u = StartUrl /\ u \in visited_urls']_vars

\* page 1 links to page 2 and page 2 back to page 1: the run fetched each
\* once and ended below its page cap with an empty queue
C34_Witness ==
    /\ pc = "done"
    /\ selector_map.pagination_selector = Sel_next
    /\ site[1] = 2
    /\ site[2] = 1
    /\ max_pages = 3
    /\ fetched = <<PageUrl(1), PageUrl(2)>>
    /\ page_count = 2
    /\ pages_to_scrape = <<>>

\* C35: in HTTP mode the pending queue of a run never holds more than one
\* URL, every batch handed to gather holds exactly one page, taken while the
\* queue is left empty, whatever max_concurrent >= 1 is.
C35_SingletonQueue ==
    (InRun /\ ~use_browser) =>
        /\ Len(pages_to_scrape) <= 1
        /\ Len(tasks) <= 1
        /\ pc = "gather" => (Len(tasks) = 1 /\ pages_to_scrape = <<>>)

\* with max_concurrent = 2 the second batch of a run holds page 2 alone
C35_Witness ==
    /\ ~use_browser
    /\ max_concurrent = 2
    /\ pc = "gather"
    /\ fetched = <<PageUrl(1)>>
    /\ Len(tasks) = 1
    /\ tasks[1].url = PageUrl(2)
    /\ pages_to_scrape = <<>>

\* the fetches of a URL by the run so far: the fetch that feeds inference
\* (of the start URL, made once the run is past its first step) and the
\* fetches of the pagination loop
InitialFetches(u) ==
    IF u = StartUrl /\ run > 0 /\ pc # "initial_fetch" THEN 1 ELSE 0

LoopFetches(u) == Cardinality({i \in 1..Len(fetched) : fetched[i] = u})

Fetches(u) == InitialFetches(u) + LoopFetches(u)

TotalFetches == InitialFetches(StartUrl) + Len(fetched)

RunEnded == pc \in {"done", "raised"}

\* C36 as stated: a run has fetched the start URL exactly twice, every other
\* URL at most once, and at most max_pages + 1 pages in all.
C36_StartFetchedTwice ==
    RunEnded =>
        /\ Fetches(StartUrl) = 2
        /\ \A k \in Pages : PageUrl(k) # StartUrl => Fetches(PageUrl(k)) <= 1
        /\ TotalFetches <= max_pages + 1

\* C36, amended: a run fetches the start URL at most twice, every other URL
\* at most once and at most max_pages + 1 pages in all; a run that returns
\* has fetched the start URL exactly twice, a run that raises exactly once.
C36_FetchBudget ==
    /\ Fetches(StartUrl) <= 2
    /\ \A k \in Pages : PageUrl(k) # StartUrl => Fetches(PageUrl(k)) <= 1
    /\ TotalFetches <= max_pages + 1
    /\ pc = "done" => Fetches(StartUrl) = 2
    /\ pc = "raised" => (Fetches(StartUrl) = 1 /\ TotalFetches = 1)

\* a run with a cap of 2 that returned after 3 fetches: the start URL for
\* inference, the start URL again and page 2 in the loop
C36_Witness ==
    /\ pc = "done"
    /\ max_pages = 2
    /\ fetched = <<PageUrl(1), PageUrl(2)>>
    /\ TotalFetches = 3
    /\ Fetches(StartUrl) = 2

(***************************************************************************)
(* Claims about a page that fails inside the pagination loop.              *)
(***************************************************************************)
\* the records of the first n pages the loop fetched, in the order fetched
RECURSIVE RecordsOfFirst(_)
RecordsOfFirst(n) ==
    IF n = 0 THEN <<>> ELSE RecordsOfFirst(n - 1) \o Extractable(fetched[n])

\* the records of the pages fetched before the last one
BeforeLast == RecordsOfFirst(Len(fetched) - 1)

\* what scrape returns for the records collected
Returned(recs) == IF use_browser THEN _clean_records(recs) ELSE recs

\* the failed page of the run has been dealt with by the loop
AfterFailure == InRun /\ failures /\ pc \in {"loop", "done"}

InitModes == Init /\ ~use_browser

\* DirectoryScraper(..., use_browser=True): a new instance, after the run of
\* the instance in HTTP mode has returned
SwitchMode ==
    /\ call_pc = "idle"
    /\ pc = "done" /\ run = 1 /\ ~use_browser
    /\ call_pc' = "switched"
    /\ call_arg' = [result |-> result, failures |-> failures,
                    selector_map |-> selector_map, fetched |-> fetched]
    /\ use_browser' = TRUE
    /\ visited_urls' = {}
    /\ pc' = "idle"
    /\ run' = 0
    /\ selector_map' = NoSelectorMap
    /\ all_records' = <<>>
    /\ pages_to_scrape' = <<>>
    /\ page_count' = 0
    /\ result' = <<>>
    /\ fetched' = <<>>
    /\ failures' = FALSE
    /\ prev' = NoPrev
    /\ infers' = 0
    /\ parse_maps' = {}
    /\ UNCHANGED <<site, max_pages, max_concurrent, tasks, current_url, raised,
                   call_ret, enrichVars, inferVars, parseVars>>

\* each of the two scrapers is run once
RunOnce == Next /\ run' <= 1

NextModes == RunOnce \/ SwitchMode

SpecModes == InitModes /\ [][NextModes]_vars

\* the first run of the browser-mode scraper has returned, with the mapping
\* of the HTTP run and, like it, without a failed page
SameInputs ==
    /\ call_pc = "switched"
    /\ pc = "done" /\ run = 1
    /\ selector_map = call_arg.selector_map
    /\ ~failures /\ ~call_arg.failures

\* C38: with the same mapping, the same pages and the same failures, the run
\* in browser mode returns the record sequence the run in HTTP mode returned.
C38_ModesAgree == SameInputs => result = call_arg.result

(***************************************************************************)
(* Claims about the selector cache of the enricher.                        *)
(***************************************************************************)
\* the origin of the detail page of task j
TaskDomain(j) == _get_domain(Get(etasks[j].record.data, detail_url_field))

\* the inference call of task j ends in this step with an exception
InferenceFails(j) ==
    /\ j \in 1..Len(etasks) /\ Len(etasks') = Len(etasks)
    /\ etasks[j].pc = "infer"
    /\ etasks'[j].pc = "exception" /\ etasks'[j].error = "inference"

\* the inference call of task j returns a mapping in this step
InferenceReturns(j) ==
    /\ j \in 1..Len(etasks) /\ Len(etasks') = Len(etasks)
    /\ etasks[j].pc = "infer"
    /\ etasks'[j].pc \in {"done", "exception"} /\ etasks'[j].error # "inference"

\* the detail page of task j has been fetched in this step
FetchReturns(j) ==
    /\ j \in 1..Len(etasks) /\ Len(etasks') = Len(etasks)
    /\ etasks[j].pc = "fetch"
    /\ etasks'[j].pc # "fetch" /\ etasks'[j].error # "fetch"

\* C39: a failed inference call leaves the selector cache as it was; the
\* cache changes only in a step in which an inference call returns a mapping,
\* and then holds that mapping for the origin of the call; every entry is a
\* mapping an inference call returned; a task that has fetched a page of an
\* origin without entry starts a new inference call.
C39_CacheFrame ==
    /\ [][\A j \in 1..Len(etasks) : InferenceFails(j) =>
            selector_cache' = selector_cache]_vars
    /\ [][selector_cache' # selector_cache =>
            \E j \in 1..Len(etasks) :
                /\ InferenceReturns(j)
                /\ TaskDomain(j) \in DOMAIN selector_cache'
                /\ selector_cache'[TaskDomain(j)] \in DetailResponses
                /\ \A d \in DOMAIN selector_cache' :
                      d # TaskDomain(j) =>
                          (d \in DOMAIN selector_cache
                              /\ selector_cache'[d] = selector_cache[d])]_vars
    /\ [](\A d \in DOMAIN selector_cache : selector_cache[d] \in DetailResponses)
    /\ [][\A j \in 1..Len(etasks) :
            (FetchReturns(j) /\ TaskDomain(j) \notin DOMAIN selector_cache) =>
                /\ etasks'[j].pc = "infer"
                /\ TaskDomain(j) \in DOMAIN infer_calls'
                /\ infer_calls'[TaskDomain(j)] =
                      (IF TaskDomain(j) \in DOMAIN infer_calls
                       THEN infer_calls[TaskDomain(j)] ELSE 0) + 1]_vars

\* records are enriched one at a time; the inference call for the first
\* record failed, the cache is empty, and the second record, of the same
\* origin, has started the second inference call for it
C39_Witness ==
    /\ deep_max_concurrent = 1
    /\ epc = "gather"
    /\ batch_start = 1
    /\ failed = {1}
    /\ selector_cache = <<>>
    /\ Len(etasks) = 1
    /\ etasks[1].pc = "infer"
    /\ TaskDomain(1) \in DOMAIN infer_calls
    /\ infer_calls[TaskDomain(1)] = 2
====
